---- MODULE Spec2Model ----
(***************************************************************************)
(* Ingestion pipeline of the log monitoring backend:                       *)
(*   LogMonitor / LogFileHandler (log_monitor.py)  - file tailing          *)
(*   LogQueue                     (log_queue.py)    - queue, batching, emit *)
(*   LogParser                    (log_parser.py)   - normalisation         *)
(*   JSONAccumulator              (json_accumulator.py) - dedup + storage   *)
(*   app.py                                         - wiring and start-up   *)
(***************************************************************************)
EXTENDS Integers, Sequences, FiniteSets, TLC

VARIABLES
    now,                    \* index into Clock: the wall-clock date (datetime.now())
    disk,                   \* unified_logs/: partition file name -> sequence of records
    processed_logs,         \* JSONAccumulator.processed_logs (set of hashes)
    current_week,           \* JSONAccumulator.current_week (set in __init__)
    files,                  \* source log files: path -> file content
    file_positions,         \* LogFileHandler.file_positions
    initial_read_complete,  \* LogFileHandler.initial_read_complete
    notify,                 \* paths with an undelivered on_modified event
    mpc,                    \* position of the main thread (app.py __main__)
    todo,                   \* files read_existing_files has still to read
    trunc_mark,             \* truncated files: path -> [n: the number of RawLines
                            \* of the file enqueued by then, live: whether the
                            \* file was being tailed]
    queue,                  \* LogQueue.queue
    batch,                  \* the consumer's current batch
    bidx,                   \* number of items of batch already processed
    is_running,             \* LogQueue.is_running
    cpc,                    \* position of the consumer thread (_process_logs)
    emitted,                \* socketio.emit calls so far: event name and payload
    append_errors,          \* entries of the "Error appending to ..." prints
    enqueued,               \* RawLines handed to LogQueue.add_log so far
    runs,                   \* number of process starts so far
    result,                 \* the last call of the query interface: what was
                            \* called, with which arguments, and what it returned
    lock,                   \* JSONAccumulator.lock: the thread holding it, or "free"
    callers                 \* the threads that call JSONAccumulator.add_log
                            \* directly: thread -> its position in the call

vars == <<now, disk, processed_logs, current_week, files, file_positions,
          initial_read_complete, notify, mpc, todo, trunc_mark, queue, batch, bidx, is_running,
          cpc, emitted, append_errors, enqueued, runs, result, lock, callers>>

storeVars == <<disk, processed_logs, current_week, append_errors>>
watchVars == <<files, file_positions, initial_read_complete, notify, mpc,
               todo, trunc_mark>>
queueVars == <<queue, batch, bidx, is_running, cpc>>
lockVars == <<lock, callers>>

(***************************************************************************)
(* Python values.  A JSON value is tagged with its type; a dict is a       *)
(* function from its keys to values, so that key presence is DOMAIN.       *)
(***************************************************************************)
JStr(s)  == [t |-> "str",  v |-> s]
JDict(d) == [t |-> "dict", v |-> d]

\* dict.get(key, default)
Get(d, k, default) == IF k \in DOMAIN d THEN d[k] ELSE default

\* str.lower() on the level strings that occur
Lower(s) ==
    CASE s = "ERROR"   -> "error"
      [] s = "INFO"    -> "info"
      [] s = "WARNING" -> "warning"
      [] s = "WARN"    -> "warn"
      [] OTHER         -> s

\* the value parse_log returns from its except branch
None == [none |-> TRUE]

\* no call of the query interface has been made yet
NoCall == [call |-> "none"]

\* the threads that call add_log of the store directly, and a thread that
\* is not inside a call
Threads == {"t1", "t2"}
Idle == [pc |-> "idle"]
NoCallers ==
    /\ lock = "free"
    /\ callers = [t \in Threads |-> Idle]

(***************************************************************************)
(* Calendar: datetime.now().strftime("%Y_W%V").                            *)
(* A date is <<year, month, day>>.                                         *)
(***************************************************************************)
IsLeap(y) == (y % 4 = 0) /\ ((y % 100 # 0) \/ (y % 400 = 0))

DaysInMonth(y, m) ==
    CASE m \in {1, 3, 5, 7, 8, 10, 12} -> 31
      [] m \in {4, 6, 9, 11}           -> 30
      [] OTHER                         -> IF IsLeap(y) THEN 29 ELSE 28

RECURSIVE DaysBeforeMonth(_, _)
DaysBeforeMonth(y, m) ==
    IF m = 1 THEN 0 ELSE DaysBeforeMonth(y, m - 1) + DaysInMonth(y, m - 1)

DaysBeforeYear(y) ==
    (y - 1) * 365 + ((y - 1) \div 4) - ((y - 1) \div 100) + ((y - 1) \div 400)

\* proleptic Gregorian ordinal, day 1 = 0001-01-01 (a Monday)
Ordinal(d) == DaysBeforeYear(d[1]) + DaysBeforeMonth(d[1], d[2]) + d[3]

\* ordinal of the Monday that starts ISO week 1 of year y
IsoWeek1Monday(y) ==
    LET firstday     == Ordinal(<<y, 1, 1>>)
        firstweekday == (firstday + 6) % 7
        monday       == firstday - firstweekday
    IN  IF firstweekday > 3 THEN monday + 7 ELSE monday

\* %V: the ISO 8601 week number, 1..53
IsoWeek(d) ==
    LET today == Ordinal(d)
        w1    == IsoWeek1Monday(d[1])
    IN  IF today < w1
        THEN ((today - IsoWeek1Monday(d[1] - 1)) \div 7) + 1
        ELSE IF today >= IsoWeek1Monday(d[1] + 1)
             THEN 1
             ELSE ((today - w1) \div 7) + 1

\* "%Y_W%V": the calendar year, "W", and the week number zero-padded to 2 digits
WeekKey(d) == <<d[1], "W", IsoWeek(d) \div 10, IsoWeek(d) % 10>>

\* the wall-clock dates the process can observe, in order
Clock == << <<2025, 7, 1>>, <<2025, 7, 8>> >>

Today == Clock[now]

\* a variant of _get_current_week that answers with the week cached by __init__
MutGetCurrentWeekCached == current_week

\* JSONAccumulator._get_current_week
GetCurrentWeek == WeekKey(Today)

(***************************************************************************)
(* Source file paths.  The code only ever asks whether a path contains a   *)
(* given substring, so a path is the set of those substrings it contains.  *)
(***************************************************************************)
Contains(path, s) == s \in path

PyError   == {"python_logs", "error-"}      \* python_logs/error-2025-07-01.log
PyInfo    == {"python_logs", "info-"}       \* python_logs/info-2025-07-01.log
PyAccess  == {"python_logs", "access-"}     \* python_logs/access-2025-07-01.log
PyOther   == {"python_logs"}                \* python_logs/app.log
NodeError == {"node_logs", "errorLogs", "error-"}   \* node_logs/errorLogs/error-*.log
NodeAccess == {"node_logs", "accessLogs", "access-"}    \* node_logs/accessLogs/access-*.log
NodeRequest == {"node_logs", "requestsLogs"}    \* node_logs/requestsLogs/requests-*.log

(***************************************************************************)
(* Line contents.  A line is either text that json.loads rejects or the    *)
(* text of a JSON object, given by the object it decodes to.               *)
(***************************************************************************)
TextLine(s) == [kind |-> "text", text |-> s]
JsonLine(d) == [kind |-> "json", val |-> JDict(d)]

T1 == "2025-07-01T10:00:00"
T2 == "2025-07-01T10:00:05"

\* fromisoformat: the calendar date of a timestamp string
DateOf(ts) ==
    CASE ts = T1 -> <<2025, 7, 1>>
      [] ts = T2 -> <<2025, 7, 1>>

LErr  == JsonLine([level |-> JStr("ERROR"), message |-> JStr("db down"),
                   timestamp |-> JStr(T1)])
LInfo == JsonLine([level |-> JStr("INFO"), message |-> JStr("started"),
                   timestamp |-> JStr(T1)])
LWarn == JsonLine([level |-> JStr("WARNING"), message |-> JStr("disk low"),
                   timestamp |-> JStr(T2)])
LReqA == JsonLine([level |-> JStr("INFO"), message |-> JStr("GET /a"),
                   timestamp |-> JStr(T1), path |-> JStr("/a"),
                   method |-> JStr("GET"), status_code |-> [t |-> "num", v |-> 200]])
LBad  == TextLine("not json")

\* a RawLine as the watcher builds it (the observed_at time is never read)
RawLine(path, content) == [file_path |-> path, content |-> content]

(***************************************************************************)
(* LogParser                                                               *)
(***************************************************************************)
\* a classifier that looks at the record instead of the path
MutIsRequestLogByShape(file_path, content) ==
    {"status_code", "method"} \subseteq DOMAIN content

\* _is_request_log
IsRequestLog(file_path, content) ==
    \/ Contains(file_path, "requestsLogs")
    \/ Contains(file_path, "python_logs") /\ Contains(file_path, "access-")

\* _is_error_log; the caller has checked that level, when present, is a str
IsErrorLog(content) ==
    Lower(Get(content, "level", JStr("")).v) \in {"error", "warn", "warning"}

\* _extract_user_id: re.search(r'user_id[=:](\d+)', message); none of the
\* messages of the model carries a user id
ExtractUserId(message) == JStr("-")

\* the subscripts content[k] of a parse function: a missing key raises KeyError
HasKeys(content, keys) == keys \subseteq DOMAIN content

\* float(s.replace("ms", "")) on the response times that occur: the number,
\* in tenths, or None where float raises ValueError
FloatOfMs(s) ==
    CASE s = "25.5ms" -> [t |-> "float", v |-> 255]
      [] s = "12ms"   -> [t |-> "float", v |-> 120]
      [] s = "7"      -> [t |-> "float", v |-> 70]
      [] OTHER        -> None

\* _parse_request_log
ParseRequestLog(source, content, file_path) ==
    IF source = "node"
    THEN IF ~HasKeys(content, {"message", "level", "timestamp"}) THEN None
         ELSE LET msg == content["message"] IN
              IF msg.t # "dict" THEN None
              ELSE IF ~HasKeys(msg.v, {"endpoint", "ip", "method", "status_code",
                                       "response_time"}) THEN None
              ELSE IF msg.v["response_time"].t # "str" THEN None
              ELSE IF FloatOfMs(msg.v["response_time"].v) = None THEN None
              ELSE [source |-> source, log_type |-> "request",
                    original_level |-> content["level"],
                    timestamp |-> content["timestamp"],
                    endpoint |-> msg.v["endpoint"], ip |-> msg.v["ip"],
                    method |-> msg.v["method"],
                    status_code |-> msg.v["status_code"],
                    response_time |-> FloatOfMs(msg.v["response_time"].v),
                    user_agent |-> Get(msg.v, "user_agent", JStr("-")),
                    user_id |-> Get(msg.v, "user_id", JStr("-")),
                    req_id |-> Get(msg.v, "req_id", JStr("-")),
                    file_path |-> file_path]
    ELSE IF ~HasKeys(content, {"level", "timestamp", "path", "method",
                               "status_code"}) THEN None
         ELSE IF Get(content, "user_agent", JStr("-")).t # "str" THEN None
         ELSE [source |-> source, log_type |-> "request",
               original_level |-> content["level"],
               timestamp |-> content["timestamp"],
               endpoint |-> content["path"],
               ip |-> Get(content, "client_ip", JStr("-")),
               method |-> content["method"],
               status_code |-> content["status_code"],
               response_time |-> Get(content, "duration_ms", [t |-> "num", v |-> 0]),
               user_agent |-> Get(content, "user_agent", JStr("-")),
               user_id |-> Get(content, "user_id", JStr("-")),
               req_id |-> Get(content, "request_id", JStr("-")),
               url |-> Get(content, "url", JStr("-")),
               file_path |-> file_path]

\* _parse_error_log and _parse_info_log build the same record but for log_type;
\* content["message"] must be a str for the node branch (re.search) and for
\* _extract_error_details (message.lower()).  The attributes that are copied
\* and never read again by the pipeline (function, filename, error_details,
\* status_code, duration_ms) are left out of the record.
ParseLevelLog(log_type, source, content, file_path) ==
    IF ~HasKeys(content, {"level", "timestamp", "message"}) THEN None
    ELSE IF content["level"].t # "str" THEN None
    ELSE IF (source = "node" \/ log_type = "error") /\ content["message"].t # "str"
         THEN None
    ELSE IF source = "node"
    THEN [source |-> source, log_type |-> log_type,
          level |-> Lower(content["level"].v),
          timestamp |-> content["timestamp"],
          message |-> content["message"],
          req_id |-> Get(content, "req_id", JStr("-")),
          ip |-> Get(content, "ip", JStr("-")),
          user_id |-> ExtractUserId(content["message"]),
          file_path |-> file_path]
    ELSE [source |-> source, log_type |-> log_type,
          level |-> Lower(content["level"].v),
          timestamp |-> content["timestamp"],
          message |-> content["message"],
          path |-> Get(content, "path", JStr("-")),
          req_id |-> Get(content, "request_id", JStr("-")),
          user_id |-> Get(content, "user_id", JStr("-")),
          ip |-> Get(content, "client_ip", JStr("-")),
          file_path |-> file_path]

\* _parse_error_log
ParseErrorLog(source, content, file_path) ==
    ParseLevelLog("error", source, content, file_path)

\* _parse_info_log
ParseInfoLog(source, content, file_path) ==
    ParseLevelLog("info", source, content, file_path)

\* an exception that leaves parse_log
Escaped == [raised |-> "Exception"]

\* parse_log without its except branch: the exception reaches the caller
MutParseLogNoExcept(log_entry) ==
    LET returned ==
            LET file_path == log_entry.file_path
                raw       == log_entry.content
            IN  IF raw.kind # "json" THEN None
                ELSE IF raw.val.t # "dict" THEN None
                ELSE LET content == raw.val.v
                         source  == IF Contains(file_path, "node_logs") THEN "node" ELSE "python"
                     IN  IF IsRequestLog(file_path, content)
                         THEN ParseRequestLog(source, content, file_path)
                         ELSE IF Get(content, "level", JStr("")).t # "str" THEN None
                         ELSE IF IsErrorLog(content)
                         THEN ParseErrorLog(source, content, file_path)
                         ELSE ParseInfoLog(source, content, file_path)
    IN  IF returned = None THEN Escaped ELSE returned

\* parse_log: any exception (json.loads on text, a missing key, a value of the
\* wrong type) ends in the except branch, which returns None
ParseLog(log_entry) ==
    LET file_path == log_entry.file_path
        raw       == log_entry.content
    IN  IF raw.kind # "json" THEN None
        ELSE IF raw.val.t # "dict" THEN None
        ELSE LET content == raw.val.v
                 source  == IF Contains(file_path, "node_logs") THEN "node" ELSE "python"
             IN  IF IsRequestLog(file_path, content)
                 THEN ParseRequestLog(source, content, file_path)
                 ELSE IF Get(content, "level", JStr("")).t # "str" THEN None
                 ELSE IF IsErrorLog(content)
                 THEN ParseErrorLog(source, content, file_path)
                 ELSE ParseInfoLog(source, content, file_path)

(***************************************************************************)
(* JSONAccumulator                                                         *)
(***************************************************************************)
\* _get_file_path for one log type: unified_<log_type>_logs_<week>.jsonl
GetFilePath(log_type, week) == [type |-> log_type, week |-> week]

\* _generate_log_hash: md5 over the five fields joined by '|'; the digest is
\* taken to be injective, so the hash is the tuple of the fields
GenerateLogHash(log_entry) ==
    << Get(log_entry, "timestamp", JStr("")),
       Get(log_entry, "source", ""),
       Get(log_entry, "message", JStr("")),
       Get(log_entry, "level", ""),
       Get(log_entry, "file_path", {}) >>

\* the records of a partition file (none when the file does not exist)
Records(d, name) == IF name \in DOMAIN d THEN d[name] ELSE <<>>

\* open(file_path, 'a') ... json.dump ... write
WriteRecord(d, name, log_entry) ==
    [n \in DOMAIN d \cup {name} |-> IF n = name
                                     THEN Append(Records(d, name), log_entry)
                                     ELSE d[n]]

\* whether _append_to_file rejects the entry as already processed
IsDuplicate(seen, log_entry) == GenerateLogHash(log_entry) \in seen

\* a variant of _append_to_file that writes without looking at processed_logs
MutAppendToFileNoCheck(d, seen, name, log_entry, io_ok) ==
    IF ~io_ok THEN [disk |-> d, seen |-> seen]
    ELSE [disk |-> WriteRecord(d, name, log_entry),
          seen |-> seen \cup {GenerateLogHash(log_entry)}]

\* a variant of _append_to_file that marks the entry as processed before it
\* writes
MutAppendToFileMarksFirst(d, seen, name, log_entry, io_ok) ==
    IF IsDuplicate(seen, log_entry) THEN [disk |-> d, seen |-> seen]
    ELSE IF ~io_ok THEN [disk |-> d, seen |-> seen \cup {GenerateLogHash(log_entry)}]
    ELSE [disk |-> WriteRecord(d, name, log_entry),
          seen |-> seen \cup {GenerateLogHash(log_entry)}]

\* _append_to_file under self.lock: the store <<disk, processed_logs>> after
\* the call; io_ok = FALSE is an OSError raised by open or write
AppendToFile(d, seen, name, log_entry, io_ok) ==
    IF IsDuplicate(seen, log_entry) THEN [disk |-> d, seen |-> seen]
    ELSE IF ~io_ok THEN [disk |-> d, seen |-> seen]
    ELSE [disk |-> WriteRecord(d, name, log_entry),
          seen |-> seen \cup {GenerateLogHash(log_entry)}]

\* the if/elif chain of add_log: the unified log type of an entry, by its
\* source and the path of the file it came from ("none": not categorized)
RouteOf(parsed_log) ==
    LET source    == Get(parsed_log, "source", "")
        file_path == Get(parsed_log, "file_path", {})
    IN  IF \/ source = "python" /\ Contains(file_path, "access-")
           \/ source = "node" /\ Contains(file_path, "requestsLogs")
        THEN "request"
        ELSE IF \/ source = "python" /\ (Contains(file_path, "error-")
                                          \/ Contains(file_path, "warning-"))
                \/ source = "node" /\ Contains(file_path, "errorLogs")
        THEN "error"
        ELSE IF \/ source = "python" /\ Contains(file_path, "info-")
                \/ source = "node" /\ Contains(file_path, "accessLogs")
        THEN "info"
        ELSE "none"

\* datetime.now().isoformat() for the dates of Clock
NowIso == IF Today = <<2025, 7, 1>> THEN "2025-07-01T12:00:00"
                                     ELSE "2025-07-08T12:00:00"

RECURSIVE HashesOf(_)
HashesOf(records) ==
    IF records = << >> THEN {}
    ELSE {GenerateLogHash(Head(records))} \cup HashesOf(Tail(records))

\* a variant of _load_existing_log_hashes that finds no file
MutLoadNothing(d, seen) == seen

\* _load_existing_log_hashes: the set after the call.  Every line of every
\* unified_*_logs_*.jsonl file is decoded and hashed; json.loads gives back
\* the values json.dump wrote (strings, numbers and dicts of them).
LoadExistingLogHashes(d, seen) ==
    seen \cup UNION {HashesOf(d[n]) : n \in DOMAIN d}

\* whether the call add_log(parsed_log) reaches the file write and the write
\* raises (the except branch of _append_to_file prints the error)
AppendRaises(seen, parsed_log, io_ok) ==
    /\ parsed_log # None
    /\ RouteOf(parsed_log) # "none"
    /\ ~IsDuplicate(seen, parsed_log)
    /\ ~io_ok

\* add_log: the store after the call
AddLog(d, seen, parsed_log, io_ok) ==
    IF parsed_log = None THEN [disk |-> d, seen |-> seen]
    ELSE LET week  == GetCurrentWeek
             entry == IF "timestamp" \in DOMAIN parsed_log THEN parsed_log
                      ELSE [k \in DOMAIN parsed_log \cup {"timestamp"} |->
                              IF k = "timestamp" THEN JStr(NowIso) ELSE parsed_log[k]]
             route == RouteOf(entry)
         IN  IF route = "none" THEN [disk |-> d, seen |-> seen]
             ELSE AppendToFile(d, seen, GetFilePath(route, week), entry, io_ok)

\* get_logs(log_type, None, week) for one log type: the records of the file
GetLogs(d, log_type, week) == Records(d, GetFilePath(log_type, week))

(***************************************************************************)
(* LogQueue                                                                *)
(***************************************************************************)
batch_size == 10

\* the largest number of RawLines handed to the queue in one run of the model
MaxSubmit == 3

\* the outcomes of the file write inside _append_to_file
IOOutcomes == {TRUE, FALSE}

Emit(event, data) == [event |-> event, data |-> data]

\* datetime.fromisoformat(l.get('timestamp', '')) of the stats computation
\* succeeds on these timestamps
FromIsoOk(ts) == ts.t = "str" /\ ts.v \in {T1, T2}

RECURSIVE CountType(_, _)
CountType(logs, log_type) ==
    IF logs = <<>> THEN 0
    ELSE (IF Get(Head(logs), "log_type", "") = log_type THEN 1 ELSE 0)
         + CountType(Tail(logs), log_type)

\* the stats dict of _emit_log (total and by_type; the other counts are
\* computed from the same list and are not part of the model's payload)
Stats(all_logs) ==
    [total_logs |-> Len(all_logs),
     by_type |-> [info    |-> CountType(all_logs, "info"),
                  error   |-> CountType(all_logs, "error"),
                  request |-> CountType(all_logs, "request")]]

\* a variant of _emit_log that raises the alert for the level error only
MutEmitLogErrorOnly(log, d, week) ==
    LET log_type == Get(log, "log_type", "info")
        level    == Get(log, "level", "info")
        all_logs == Records(d, [type |-> "info", week |-> week])
                    \o Records(d, [type |-> "error", week |-> week])
                    \o Records(d, [type |-> "request", week |-> week])
    IN  << [event |-> "new_log", data |-> log],
           [event |-> "new_" \o log_type \o "_log", data |-> log] >>
        \o (IF level = "error"
            THEN << [event |-> "error_detected", data |-> log] >> ELSE << >>)
        \o << [event |-> "stats_update",
               data |-> [total_logs |-> Len(all_logs)]] >>

\* _emit_log: the socketio.emit calls it makes, in order.  d is the store as
\* add_log left it; the stats are read for json_accumulator.current_week.
\* A timestamp fromisoformat rejects raises inside the try: the three log
\* events are out by then and stats_update is not sent.
EmitLog(log, d, week) ==
    LET log_type == Get(log, "log_type", "info")
        level    == Get(log, "level", "info")
        all_logs == GetLogs(d, "info", week) \o GetLogs(d, "error", week)
                    \o GetLogs(d, "request", week)
        events   == << Emit("new_log", log),
                       Emit("new_" \o log_type \o "_log", log) >>
        alert    == IF Lower(level) \in {"error", "warning", "warn"}
                    THEN << Emit("error_detected", log) >> ELSE << >>
        stats    == IF \A i \in DOMAIN all_logs :
                            FromIsoOk(Get(all_logs[i], "timestamp", JStr("")))
                    THEN << Emit("stats_update", Stats(all_logs)) >> ELSE << >>
    IN  events \o alert \o stats

\* LogQueue.add_log: queue.put on an unbounded queue.Queue
Put(q, log_entry) == Append(q, log_entry)

\* a variant of the loop test that does not read is_running ("while True")
MutConsumerLoopTopForever ==
    /\ cpc = "top"
    /\ cpc' = "collect"
    /\ batch' = <<>>
    /\ bidx' = 0
    /\ UNCHANGED <<lockVars, now, storeVars, watchVars, queue, is_running, emitted,
                   enqueued, runs, result>>

\* the while-loop test of _process_logs
ConsumerLoopTop ==
    /\ cpc = "top"
    /\ cpc' = IF is_running THEN "collect" ELSE "stopped"
    /\ batch' = <<>>
    /\ bidx' = 0
    /\ UNCHANGED <<lockVars, now, storeVars, watchVars, queue, is_running, emitted,
                   enqueued, runs, result>>

\* a variant of queue.get on a last-in first-out queue
MutConsumerGetNewest ==
    /\ cpc = "collect"
    /\ Len(batch) < batch_size
    /\ queue # <<>>
    /\ batch' = Append(batch, queue[Len(queue)])
    /\ queue' = SubSeq(queue, 1, Len(queue) - 1)
    /\ UNCHANGED <<lockVars, now, storeVars, watchVars, bidx, is_running, cpc, emitted,
                   enqueued, runs, result>>

\* a variant of the collecting loop without the test len(batch) < batch_size
MutConsumerGetUnbounded ==
    /\ cpc = "collect"
    /\ queue # <<>>
    /\ batch' = Append(batch, Head(queue))
    /\ queue' = Tail(queue)
    /\ UNCHANGED <<lockVars, now, storeVars, watchVars, bidx, is_running, cpc, emitted,
                   enqueued, runs, result>>

\* queue.get(timeout) returns an item; the batch is not full
ConsumerGet ==
    /\ cpc = "collect"
    /\ Len(batch) < batch_size
    /\ queue # <<>>
    /\ batch' = Append(batch, Head(queue))
    /\ queue' = Tail(queue)
    /\ UNCHANGED <<lockVars, now, storeVars, watchVars, bidx, is_running, cpc, emitted,
                   enqueued, runs, result>>

\* the batch closes: it is full, queue.get timed out on an empty queue, or
\* batch_timeout has elapsed since the batch was begun (after a get)
ConsumerClose ==
    /\ cpc = "collect"
    /\ \/ Len(batch) >= batch_size
       \/ queue = <<>>
       \/ batch # <<>>
    /\ cpc' = IF batch = <<>> THEN "top" ELSE "process"
    /\ UNCHANGED <<lockVars, now, storeVars, watchVars, queue, batch, bidx, is_running,
                   emitted, enqueued, runs, result>>

\* a variant of the batch loop in which an item that fails to parse ends the
\* batch (the per-item try/except missing)
MutConsumerProcessAbort(io_ok) ==
    /\ cpc = "process"
    /\ bidx < Len(batch)
    /\ LET parsed_log == ParseLog(batch[bidx + 1])
           store      == AddLog(disk, processed_logs, parsed_log, io_ok)
       IN  /\ disk' = store.disk
           /\ processed_logs' = store.seen
           /\ append_errors' = IF AppendRaises(processed_logs, parsed_log, io_ok)
                               THEN append_errors \cup {parsed_log}
                               ELSE append_errors
           /\ emitted' = IF parsed_log = None THEN emitted
                         ELSE emitted \o EmitLog(parsed_log, store.disk, current_week)
           /\ bidx' = IF parsed_log = None THEN Len(batch) ELSE bidx + 1
           /\ cpc' = IF parsed_log = None \/ bidx + 1 = Len(batch)
                     THEN "top" ELSE "process"
    /\ UNCHANGED <<lockVars, now, current_week, watchVars, queue, batch, is_running,
                   enqueued, runs, result>>

\* one iteration of "for log_entry in batch"
ConsumerProcess(io_ok) ==
    /\ cpc = "process"
    /\ bidx < Len(batch)
    /\ LET parsed_log == ParseLog(batch[bidx + 1])
           store      == AddLog(disk, processed_logs, parsed_log, io_ok)
       IN  /\ disk' = store.disk
           /\ processed_logs' = store.seen
           /\ append_errors' = IF AppendRaises(processed_logs, parsed_log, io_ok)
                               THEN append_errors \cup {parsed_log}
                               ELSE append_errors
           /\ emitted' = IF parsed_log = None THEN emitted
                         ELSE emitted \o EmitLog(parsed_log, disk', current_week)
    /\ bidx' = bidx + 1
    /\ cpc' = IF bidx + 1 = Len(batch) THEN "top" ELSE "process"
    /\ UNCHANGED <<lockVars, now, current_week, watchVars, queue, batch, is_running,
                   enqueued, runs, result>>

Consumer ==
    \/ ConsumerLoopTop
    \/ ConsumerGet
    \/ ConsumerClose
    \/ \E io_ok \in IOOutcomes : ConsumerProcess(io_ok)

\* the wall clock moves on to the next date of Clock
Tick ==
    /\ now < Len(Clock)
    /\ now' = now + 1
    /\ UNCHANGED <<lockVars, storeVars, watchVars, queueVars, emitted, enqueued, runs, result>>

(***************************************************************************)
(* SpecQueue: the dispatcher with its store and publisher, fed by          *)
(* producers that submit arbitrary RawLines (LogQueue.add_log).            *)
(***************************************************************************)
QueueInputs ==
    { RawLine(PyError, LErr),     \* an error line of the error file
      RawLine(PyError, LBad),     \* a line that is not JSON
      RawLine(PyInfo, LWarn),     \* a warning written to the info file
      RawLine(PyAccess, LReqA),   \* a request line of the access file
      RawLine(PyOther, LInfo) }   \* a line of a file add_log does not categorize

\* a producer calls LogQueue.add_log(log_entry)
Submit(log_entry) ==
    /\ Len(enqueued) < MaxSubmit
    /\ queue' = Put(queue, log_entry)
    /\ enqueued' = Append(enqueued, log_entry)
    /\ UNCHANGED <<lockVars, now, storeVars, watchVars, batch, bidx, is_running, cpc,
                   emitted, runs, result>>

\* JSONAccumulator(), LogQueue(socketio, json_accumulator), log_queue.start()
\* on a machine whose unified_logs directory is empty
InitQueue ==
    /\ NoCallers
    /\ now = 1
    /\ disk = << >>
    /\ processed_logs = {}
    /\ append_errors = {}
    /\ current_week = WeekKey(Clock[1])
    /\ files = << >>
    /\ file_positions = << >>
    /\ initial_read_complete = << >>
    /\ notify = {}
    /\ mpc = "serving"
    /\ todo = {}
    /\ trunc_mark = << >>
    /\ queue = << >>
    /\ batch = << >>
    /\ bidx = 0
    /\ is_running = TRUE
    /\ cpc = "top"
    /\ emitted = << >>
    /\ enqueued = << >>
    /\ runs = 1
    /\ result = NoCall

NextQueue ==
    \/ \E log_entry \in QueueInputs : Submit(log_entry)
    \/ Consumer
    \/ Tick

SpecQueue == InitQueue /\ [][NextQueue]_vars

(***************************************************************************)
(* Properties of the dispatcher and the store (SpecQueue)                  *)
(***************************************************************************)
\* the fingerprint of a record: (timestamp, source, message, level, file_path),
\* an absent field counting as the empty string
Fingerprint(r) ==
    << IF "timestamp" \in DOMAIN r THEN r.timestamp ELSE JStr(""),
       IF "source" \in DOMAIN r THEN r.source ELSE "",
       IF "message" \in DOMAIN r THEN r.message ELSE JStr(""),
       IF "level" \in DOMAIN r THEN r.level ELSE "",
       IF "file_path" \in DOMAIN r THEN r.file_path ELSE {} >>

\* the places <<file, index>> of the records of a store
Places(d) == {<<n, i>> : n \in DOMAIN d, i \in 1..MaxSubmit + 1} \cap
             UNION {{<<n, i>> : i \in DOMAIN d[n]} : n \in DOMAIN d}

RecordAt(d, pl) == d[pl[1]][pl[2]]

\* the places that hold a record equal to r
PlacesOf(d, r) == {pl \in Places(d) : RecordAt(d, pl) = r}

NoTwoRecordsShareFingerprint(d) ==
    \A p1, p2 \in Places(d) :
        p1 # p2 => Fingerprint(RecordAt(d, p1)) # Fingerprint(RecordAt(d, p2))

\* the item the consumer is about to process, and the Event it parses to
CurrentItem == batch[bidx + 1]
ProcessStep == cpc = "process" /\ bidx' = bidx + 1

\* the number of new_log broadcasts that carry r
NewLogCount(r) ==
    Cardinality({i \in DOMAIN emitted :
                    emitted[i].event = "new_log" /\ emitted[i].data = r})

\* C1: within one process no two persisted records share a fingerprint: a step
\* that processes an Event whose fingerprint is in processed_logs changes
\* neither the partition files nor the set; any step that changes a partition
\* file adds exactly one record, whose fingerprint was not in the set and is
\* in it afterwards; the set is exactly the fingerprints of the records.
C1_Step ==
    /\ NoTwoRecordsShareFingerprint(disk)'
    /\ processed_logs' = {Fingerprint(RecordAt(disk', pl)) : pl \in Places(disk')}
    /\ (ProcessStep /\ ParseLog(CurrentItem) # None
          /\ Fingerprint(ParseLog(CurrentItem)) \in processed_logs)
         => (disk' = disk /\ processed_logs' = processed_logs)
    /\ disk' # disk =>
         /\ ProcessStep
         /\ Cardinality(Places(disk')) = Cardinality(Places(disk)) + 1
         /\ \E pl \in Places(disk') \ Places(disk) :
               /\ RecordAt(disk', pl) = ParseLog(CurrentItem)
               /\ Fingerprint(RecordAt(disk', pl)) \notin processed_logs
               /\ processed_logs' =
                    processed_logs \cup {Fingerprint(RecordAt(disk', pl))}
               /\ \A q \in Places(disk) : RecordAt(disk', q) = RecordAt(disk, q)

C1_DedupWithinProcess == [][C1_Step]_vars

\* C1 witness: a batch <<a, a>> has been processed with no write error; the
\* first a was written and the second, a duplicate, wrote nothing
C1_Witness ==
    /\ Len(batch) = 2 /\ bidx = 2
    /\ batch[1] = batch[2]
    /\ append_errors = {}
    /\ Cardinality(PlacesOf(disk, ParseLog(batch[1]))) = 1
    /\ Cardinality(Places(disk)) = 1
    /\ processed_logs = {Fingerprint(ParseLog(batch[1]))}

\* C2: an Event whose fingerprint is already in the Store is never broadcast:
\* the step that processes it emits nothing.
C2_DuplicateNeverBroadcast ==
    [][(ProcessStep /\ ParseLog(CurrentItem) # None
          /\ Fingerprint(ParseLog(CurrentItem)) \in processed_logs)
        => emitted' = emitted]_vars

\* C7: every stored record is in exactly one partition file, and that file is
\* the one of the record's own category (log_type).
C7_PartitionIsOwnCategory ==
    \A pl \in Places(disk) :
        /\ pl[1].type = RecordAt(disk, pl).log_type
        /\ PlacesOf(disk, RecordAt(disk, pl)) = {pl}

\* the week key of the wall-clock dates, from the calendar
CalendarKeyOfToday ==
    CASE Today = <<2025, 7, 1>> -> <<2025, "W", 2, 7>>
      [] Today = <<2025, 7, 8>> -> <<2025, "W", 2, 8>>

\* the week key of the timestamps, from the calendar
CalendarKeyOfTimestamp(ts) ==
    CASE ts.v \in {T1, T2} -> <<2025, "W", 2, 7>>

ProcessedCount == Len(enqueued) - Len(queue) - (Len(batch) - bidx)
ProcessedLines == SubSeq(enqueued, 1, ProcessedCount)

RECURSIVE ParsedOf(_)
ParsedOf(lines) ==
    IF lines = <<>> THEN <<>>
    ELSE (IF ParseLog(Head(lines)) = None THEN <<>> ELSE <<ParseLog(Head(lines))>>)
         \o ParsedOf(Tail(lines))

RECURSIVE NewLogs(_)
NewLogs(emits) ==
    IF emits = <<>> THEN <<>>
    ELSE (IF Head(emits).event = "new_log" THEN <<Head(emits).data>> ELSE <<>>)
         \o NewLogs(Tail(emits))

\* C10: the lines the consumer has finished with that parse are all broadcast,
\* in order, whatever unparsable lines stand between them in their batches,
\* and each of them that add_log categorizes is in a partition file unless its
\* own write raised; the lines that do not parse leave nothing.
C10_BatchPartialFailure ==
    /\ ProcessedCount >= 0
    /\ NewLogs(emitted) = ParsedOf(ProcessedLines)
    /\ \A i \in 1..ProcessedCount :
          LET e == ParseLog(ProcessedLines[i]) IN
          (e # None /\ RouteOf(e) # "none")
             => (PlacesOf(disk, e) # {} \/ e \in append_errors)
    /\ Cardinality(Places(disk)) <= Len(ParsedOf(ProcessedLines))
    /\ cpc \in {"top", "collect", "process"}

\* C10 witness: a batch of three with an unparsable line in the middle is
\* done; the first and the third line are stored and were broadcast
C10_Witness ==
    /\ Len(batch) = 3 /\ bidx = 3
    /\ ParseLog(batch[1]) # None /\ ParseLog(batch[2]) = None
    /\ ParseLog(batch[3]) # None /\ batch[1] # batch[3]
    /\ PlacesOf(disk, ParseLog(batch[1])) # {}
    /\ PlacesOf(disk, ParseLog(batch[3])) # {}
    /\ NewLogs(emitted) = <<ParseLog(batch[1]), ParseLog(batch[3])>>

(***************************************************************************)
(* Source log files.  Sizes and offsets are counted in units: the text of  *)
(* a JSON line takes two units, the text of any other line one, and the    *)
(* newline that ends a line one.  A file is its lines and cut, the number  *)
(* of trailing units of the last line that its writer has not yet written. *)
(***************************************************************************)
LBlank == [kind |-> "blank"]

\* a piece of a line's text that a read returned without the rest of it
Fragment(c, a, b) == [kind |-> "frag", of |-> c, from |-> a, to |-> b]

LineLen(c) ==
    IF c.kind = "blank" THEN 1 ELSE IF c.kind = "json" THEN 3 ELSE 2

RECURSIVE SumLen(_)
SumLen(lines) == IF lines = <<>> THEN 0 ELSE LineLen(Head(lines)) + SumLen(Tail(lines))

File(lines, cut) == [lines |-> lines, cut |-> cut]

\* os.path.getsize
GetSize(file) == SumLen(file.lines) - file.cut

Max(a, b) == IF a >= b THEN a ELSE b
Min(a, b) == IF a <= b THEN a ELSE b

\* what f.seek(pos); f.readlines() and the strip/if of the loop keep of line i:
\* nothing when the line is blank or wholly before pos or only its newline
\* is read, the line when all of its text is read, else a fragment of it
Piece(file, i, pos) ==
    LET c    == file.lines[i]
        s    == SumLen(SubSeq(file.lines, 1, i - 1))
        e    == s + LineLen(c)
        we   == IF i = Len(file.lines) THEN e - file.cut ELSE e
        from == Max(s, pos)
    IN  IF we <= from \/ c.kind = "blank" \/ from >= e - 1 THEN << >>
        ELSE IF from = s /\ we >= e - 1 THEN << c >>
        ELSE << Fragment(c, from - s, Min(we, e - 1) - s) >>

RECURSIVE PiecesFrom(_, _, _)
PiecesFrom(file, i, pos) ==
    IF i > Len(file.lines) THEN << >>
    ELSE Piece(file, i, pos) \o PiecesFrom(file, i + 1, pos)

\* the stripped non-empty lines of f.seek(pos); f.readlines()
ReadLines(file, pos) == PiecesFrom(file, 1, pos)

RECURSIVE PutAll(_, _, _)
PutAll(q, path, contents) ==
    IF contents = << >> THEN q
    ELSE PutAll(Put(q, RawLine(path, Head(contents))), path, Tail(contents))

\* dict assignment d[k] = v
Assign(d, k, v) == [x \in DOMAIN d \cup {k} |-> IF x = k THEN v ELSE d[x]]

(***************************************************************************)
(* LogFileHandler and LogMonitor                                           *)
(***************************************************************************)
\* the outcomes of opening and reading a source file
ReadOutcomes == {TRUE, FALSE}

\* read_new_lines, lines 33-38: the offset the read starts from
ReadStart(current_size, last_position) ==
    IF current_size < last_position THEN 0 ELSE last_position

\* a variant of read_new_lines whose except branch forgets the stored offset
MutReadNewLinesForgets(file_path, read_ok) ==
    LET file          == files[file_path]
        current_size  == GetSize(file)
        last_position == ReadStart(current_size, Get(file_positions, file_path, 0))
        new_lines     == ReadLines(file, last_position)
    IN  IF ~read_ok
        THEN /\ file_positions' = Assign(file_positions, file_path, 0)
             /\ UNCHANGED <<lockVars, queue, enqueued>>
        ELSE IF current_size = last_position
        THEN UNCHANGED <<lockVars, queue, enqueued, file_positions>>
        ELSE /\ queue' = PutAll(queue, file_path, new_lines)
             /\ enqueued' = PutAll(enqueued, file_path, new_lines)
             /\ file_positions' = Assign(file_positions, file_path, current_size)

\* read_new_lines(file_path); read_ok = FALSE is an exception raised by
\* getsize, open or readlines, before anything is enqueued
ReadNewLines(file_path, read_ok) ==
    LET file          == files[file_path]
        current_size  == GetSize(file)
        last_position == ReadStart(current_size, Get(file_positions, file_path, 0))
        new_lines     == ReadLines(file, last_position)
    IN  IF ~read_ok \/ current_size = last_position
        THEN UNCHANGED <<lockVars, queue, enqueued, file_positions>>
        ELSE /\ queue' = PutAll(queue, file_path, new_lines)
             /\ enqueued' = PutAll(enqueued, file_path, new_lines)
             /\ file_positions' = Assign(file_positions, file_path, current_size)

\* a variant of on_modified that does not look at initial_read_complete
MutOnModifiedNoFlag(file_path, read_ok) ==
    /\ file_path \in notify
    /\ notify' = notify \ {file_path}
    /\ ReadNewLines(file_path, read_ok)
    /\ UNCHANGED <<lockVars, now, storeVars, files, initial_read_complete, mpc, todo,
                   trunc_mark, batch, bidx, is_running, cpc, emitted, runs, result>>

\* on_modified(event) for a .log file, on the observer's thread
OnModified(file_path, read_ok) ==
    /\ file_path \in notify
    /\ notify' = notify \ {file_path}
    /\ IF Get(initial_read_complete, file_path, FALSE)
       THEN ReadNewLines(file_path, read_ok)
       ELSE UNCHANGED <<lockVars, queue, enqueued, file_positions>>
    /\ UNCHANGED <<lockVars, now, storeVars, files, initial_read_complete, mpc, todo,
                   trunc_mark, batch, bidx, is_running, cpc, emitted, runs, result>>

\* log_queue.start()
StartQueue ==
    /\ mpc = "start_queue"
    /\ mpc' = "start_monitor"
    /\ is_running' = TRUE
    /\ cpc' = IF is_running THEN cpc ELSE "top"
    /\ UNCHANGED <<lockVars, now, storeVars, files, file_positions, initial_read_complete,
                   notify, todo, trunc_mark, queue, batch, bidx, emitted,
                   enqueued, runs, result>>

\* log_monitor.start() up to the os.walk of read_existing_files
StartMonitor ==
    /\ mpc = "start_monitor"
    /\ mpc' = "read_existing"
    /\ todo' = DOMAIN files
    /\ UNCHANGED <<lockVars, now, storeVars, files, file_positions, initial_read_complete,
                   notify, trunc_mark, queueVars, emitted, enqueued, runs, result>>

\* process_file(file_path) of read_existing_files
ProcessFile(file_path, read_ok) ==
    /\ mpc = "read_existing"
    /\ file_path \in todo
    /\ todo' = todo \ {file_path}
    /\ IF read_ok
       THEN LET lines == ReadLines(files[file_path], 0) IN
            /\ queue' = PutAll(queue, file_path, lines)
            /\ enqueued' = PutAll(enqueued, file_path, lines)
            /\ file_positions' =
                  Assign(file_positions, file_path, GetSize(files[file_path]))
            /\ initial_read_complete' =
                  Assign(initial_read_complete, file_path, TRUE)
       ELSE UNCHANGED <<lockVars, queue, enqueued, file_positions, initial_read_complete>>
    /\ UNCHANGED <<lockVars, now, storeVars, files, notify, mpc, trunc_mark, batch, bidx,
                   is_running, cpc, emitted, runs, result>>

\* observer.schedule(...) and observer.start(): events are delivered from here on
StartObserver ==
    /\ mpc = "read_existing"
    /\ todo = {}
    /\ mpc' = "serving"
    /\ UNCHANGED <<lockVars, now, storeVars, files, file_positions, initial_read_complete,
                   notify, todo, trunc_mark, queueVars, emitted, enqueued, runs, result>>

\* the event a write to a watched file raises once the observer runs
Notified(file_path) ==
    IF mpc = "serving" THEN notify \cup {file_path} ELSE notify

(***************************************************************************)
(* The services that write the source files                                *)
(***************************************************************************)
\* the largest number of lines a source file holds in the model
MaxLines == 2

\* the largest number of truncations of one run of the model
MaxTruncations == 1

\* a service appends a whole line in one write
AppendLine(file_path, c) ==
    /\ files[file_path].cut = 0
    /\ Len(files[file_path].lines) < MaxLines
    /\ files' = [files EXCEPT ![file_path].lines = Append(@, c)]
    /\ notify' = Notified(file_path)
    /\ UNCHANGED <<lockVars, now, storeVars, file_positions, initial_read_complete, mpc,
                   todo, trunc_mark, queueVars, emitted, enqueued, runs, result>>

\* a service writes the first k units of a line and flushes
AppendPartial(file_path, c, k) ==
    /\ files[file_path].cut = 0
    /\ Len(files[file_path].lines) < MaxLines
    /\ k \in 1..(LineLen(c) - 1)
    /\ files' = [files EXCEPT ![file_path] = File(Append(@.lines, c), LineLen(c) - k)]
    /\ notify' = Notified(file_path)
    /\ UNCHANGED <<lockVars, now, storeVars, file_positions, initial_read_complete, mpc,
                   todo, trunc_mark, queueVars, emitted, enqueued, runs, result>>

\* the service writes the rest of the line it had begun
CompleteLine(file_path) ==
    /\ files[file_path].cut > 0
    /\ files' = [files EXCEPT ![file_path].cut = 0]
    /\ notify' = Notified(file_path)
    /\ UNCHANGED <<lockVars, now, storeVars, file_positions, initial_read_complete, mpc,
                   todo, trunc_mark, queueVars, emitted, enqueued, runs, result>>

\* the RawLines of a sequence that come from one file
RECURSIVE FromFile(_, _)
FromFile(entries, file_path) ==
    IF entries = << >> THEN << >>
    ELSE (IF Head(entries).file_path = file_path THEN <<Head(entries).content>>
          ELSE << >>) \o FromFile(Tail(entries), file_path)

\* a service truncates the file (rotation, or open(path, 'w') before a rewrite)
Truncate(file_path) ==
    /\ files[file_path].lines # << >>
    /\ Cardinality(DOMAIN trunc_mark) < MaxTruncations
    /\ file_path \notin DOMAIN trunc_mark
    /\ files' = [files EXCEPT ![file_path] = File(<< >>, 0)]
    /\ trunc_mark' =
          Assign(trunc_mark, file_path,
                 [n    |-> Len(FromFile(enqueued, file_path)),
                  live |-> mpc = "serving"
                           /\ Get(initial_read_complete, file_path, FALSE)])
    /\ notify' = Notified(file_path)
    /\ UNCHANGED <<lockVars, now, storeVars, file_positions, initial_read_complete, mpc,
                   todo, queueVars, emitted, enqueued, runs, result>>

(***************************************************************************)
(* SpecTail: the watcher on a file that is only appended to, in whole      *)
(* lines or in two writes per line.  SpecRotate: the watcher on a file     *)
(* that is appended to in whole lines and may be truncated; its reads      *)
(* succeed.  The queue only collects what the watcher hands it.            *)
(***************************************************************************)
WatchFiles == {PyError}
WatchLines == {LErr, LBad, LBlank}

\* app.py up to log_monitor.start(): log_queue.start() has returned, the
\* consumer thread has not run yet, the source files are still empty
InitWatch ==
    /\ NoCallers
    /\ now = 1
    /\ disk = << >>
    /\ processed_logs = {}
    /\ append_errors = {}
    /\ current_week = WeekKey(Clock[1])
    /\ files = [f \in WatchFiles |-> File(<< >>, 0)]
    /\ file_positions = << >>
    /\ initial_read_complete = << >>
    /\ notify = {}
    /\ mpc = "start_monitor"
    /\ todo = {}
    /\ trunc_mark = << >>
    /\ queue = << >>
    /\ batch = << >>
    /\ bidx = 0
    /\ is_running = TRUE
    /\ cpc = "top"
    /\ emitted = << >>
    /\ enqueued = << >>
    /\ runs = 1
    /\ result = NoCall

Monitor ==
    \/ StartMonitor
    \/ \E f \in WatchFiles, read_ok \in ReadOutcomes : ProcessFile(f, read_ok)
    \/ StartObserver

NextTail ==
    \/ Monitor
    \/ \E f \in WatchFiles, read_ok \in ReadOutcomes : OnModified(f, read_ok)
    \/ \E f \in WatchFiles, c \in WatchLines : AppendLine(f, c)
    \/ \E f \in WatchFiles, c \in WatchLines, k \in 1..2 : AppendPartial(f, c, k)
    \/ \E f \in WatchFiles : CompleteLine(f)

SpecTail == InitWatch /\ [][NextTail]_vars

NextRotate ==
    \/ StartMonitor
    \/ \E f \in WatchFiles : ProcessFile(f, TRUE)
    \/ StartObserver
    \/ \E f \in WatchFiles : OnModified(f, TRUE)
    \/ \E f \in WatchFiles, c \in WatchLines : AppendLine(f, c)
    \/ \E f \in WatchFiles : Truncate(f)

SpecRotate == InitWatch /\ [][NextRotate]_vars

(***************************************************************************)
(* Properties of the watcher                                               *)
(***************************************************************************)
IsPrefix(a, b) == Len(a) <= Len(b) /\ a = SubSeq(b, 1, Len(a))

RECURSIVE NonBlank(_)
NonBlank(lines) ==
    IF lines = << >> THEN << >>
    ELSE (IF Head(lines).kind = "blank" THEN << >> ELSE <<Head(lines)>>)
         \o NonBlank(Tail(lines))

\* the number of leading lines of a file whose text lies wholly before pos
RECURSIVE LinesPassed(_, _)
LinesPassed(lines, pos) ==
    IF lines = << >> \/ LineLen(Head(lines)) - 1 > pos THEN 0
    ELSE 1 + LinesPassed(Tail(lines), pos - LineLen(Head(lines)))

\* the RawLine contents of a file enqueued since its last truncation
EmittedSince(f) ==
    SubSeq(FromFile(enqueued, f), trunc_mark[f].n + 1, Len(FromFile(enqueued, f)))

\* C5: of a tailed file that was truncated and rewritten the watcher emits the
\* lines written after the truncation, each once and from the first one on,
\* and nothing else: what it has emitted since is always a prefix of the
\* file's non-empty lines, and all of them once the last change notification
\* for the file has been handled.
C5_RotationSafety ==
    \A f \in DOMAIN trunc_mark :
        trunc_mark[f].live =>
          /\ IsPrefix(EmittedSince(f), NonBlank(files[f].lines))
          /\ f \notin notify => EmittedSince(f) = NonBlank(files[f].lines)

\* C6: of a file that is only appended to, what the watcher has emitted is at
\* any time exactly the non-empty lines that lie before the Cursor, each once
\* and in file order.
C6_EveryLineExactlyOnce ==
    \A f \in DOMAIN files :
        FromFile(enqueued, f) =
          NonBlank(SubSeq(files[f].lines, 1,
                          LinesPassed(files[f].lines, Get(file_positions, f, 0))))

(***************************************************************************)
(* Spec: the application as app.py starts it.  The components are built at *)
(* import (JSONAccumulator(), LogQueue, LogMonitor), then __main__ calls   *)
(* log_queue.start() and log_monitor.start().  The process starts on empty *)
(* log files and an empty unified_logs directory, or after an earlier run  *)
(* that stored the one line of the python error file.  The services append *)
(* whole lines; reads and writes succeed.                                  *)
(***************************************************************************)
AppFiles == {PyError, PyInfo}
AppLines == {LErr, LWarn}
MaxAppends == 3

RECURSIVE TotalLines(_)
TotalLines(S) ==
    IF S = {} THEN 0
    ELSE LET f == CHOOSE x \in S : TRUE
         IN  Len(files[f].lines) + TotalLines(S \ {f})

\* a service writes one more line to its log file
ServiceWrites ==
    /\ TotalLines(DOMAIN files) < MaxAppends
    /\ \E f \in AppFiles, c \in AppLines : AppendLine(f, c)

\* what an earlier run stored of the line LErr of the python error file
PriorStore ==
    AddLog(<< >>, {}, ParseLog(RawLine(PyError, LErr)), TRUE)

\* what the process finds: the partition files and the python error file
Found == {[disk |-> << >>, lines |-> << >>],
          [disk |-> PriorStore.disk, lines |-> <<LErr>>]}

\* the state in which a process starts, on the partition files d
Boot(d) ==
    /\ NoCallers
    /\ disk = d
    /\ processed_logs = {}
    /\ append_errors = {}
    /\ current_week = GetCurrentWeek
    /\ file_positions = << >>
    /\ initial_read_complete = << >>
    /\ notify = {}
    /\ mpc = "start_queue"
    /\ todo = {}
    /\ trunc_mark = << >>
    /\ queue = << >>
    /\ batch = << >>
    /\ bidx = 0
    /\ is_running = FALSE
    /\ cpc = "idle"
    /\ emitted = << >>
    /\ enqueued = << >>
    /\ result = NoCall

Init ==
    /\ now = 1
    /\ runs = 1
    /\ \E found \in Found :
          /\ files = [f \in AppFiles |->
                        File(IF f = PyError THEN found.lines ELSE << >>, 0)]
          /\ Boot(found.disk)

Main ==
    \/ StartQueue
    \/ StartMonitor
    \/ \E f \in AppFiles : ProcessFile(f, TRUE)
    \/ StartObserver

Dispatcher ==
    \/ ConsumerLoopTop
    \/ ConsumerGet
    \/ ConsumerClose
    \/ ConsumerProcess(TRUE)

Next ==
    \/ Main
    \/ \E f \in AppFiles : OnModified(f, TRUE)
    \/ Dispatcher
    \/ ServiceWrites

Spec == Init /\ [][Next]_vars

(***************************************************************************)
(* Properties of Spec                                                      *)
(***************************************************************************)
\* the fingerprints of the records in the partition files
StoredFingerprints(d) == {Fingerprint(RecordAt(d, pl)) : pl \in Places(d)}

\* C4: the set of known fingerprints is seeded from the partition files before
\* the first live append: whenever the consumer evaluates an Event, every
\* fingerprint stored in the partition files is in processed_logs.
C4_SeededBeforeFirstAppend ==
    [][ProcessStep => StoredFingerprints(disk) \subseteq processed_logs]_vars

\* the non-blank lines of a file that lie before its cursor
LinesBeforeCursor(f) ==
    NonBlank(SubSeq(files[f].lines, 1,
                    LinesPassed(files[f].lines, Get(file_positions, f, 0))))

\* C9: the lines of one file go through the pipeline in file order: what was
\* enqueued from a file is the lines before its cursor, in file order; the
\* consumer always processes the oldest enqueued line not yet processed; the
\* broadcasts of an Event are appended to the broadcasts of the Events before
\* it; and a record that is written is appended at the end of its partition
\* file, the other partition files unchanged.
C9_Step ==
    /\ \A f \in DOMAIN files : FromFile(enqueued, f)' = LinesBeforeCursor(f)'
    /\ ProcessStep =>
         /\ ProcessedCount' = ProcessedCount + 1
         /\ CurrentItem = enqueued[ProcessedCount + 1]
         /\ NewLogs(emitted)' = NewLogs(emitted) \o ParsedOf(<<CurrentItem>>)
         /\ Len(emitted') >= Len(emitted)
         /\ SubSeq(emitted', 1, Len(emitted)) = emitted
    /\ disk' # disk =>
         /\ ProcessStep
         /\ \E n \in DOMAIN disk' :
               /\ disk'[n] = Append(Records(disk, n), ParseLog(CurrentItem))
               /\ \A m \in DOMAIN disk' \ {n} : m \in DOMAIN disk
                                                  /\ disk'[m] = disk[m]

C9_PerFileOrder == [][C9_Step]_vars

\* C9 witness: two different lines of the python error file, written while
\* lines of the python info file were written too, have been read, processed
\* and stored, the first before the second
C9_Witness ==
    /\ Len(files[PyError].lines) = 2
    /\ files[PyError].lines[1] # files[PyError].lines[2]
    /\ files[PyInfo].lines # << >>
    /\ FromFile(enqueued, PyError) = files[PyError].lines
    /\ FromFile(enqueued, PyInfo) # << >>
    /\ ProcessedCount = Len(enqueued)
    /\ \E n \in DOMAIN disk : \E i, j \in DOMAIN disk[n] :
          /\ i < j
          /\ disk[n][i] = ParseLog(RawLine(PyError, files[PyError].lines[1]))
          /\ disk[n][j] = ParseLog(RawLine(PyError, files[PyError].lines[2]))

(***************************************************************************)
(* SpecTwice: the application is run, stopped once every line written so   *)
(* far has gone through the pipeline, and run again over the same files.   *)
(* The second process is built as app.py builds it, and                    *)
(* _load_existing_log_hashes is then called on its JSONAccumulator before  *)
(* anything is started.  Days may pass between the two runs.               *)
(***************************************************************************)
InitTwice ==
    /\ now = 1
    /\ runs = 1
    /\ files = [f \in AppFiles |-> File(<< >>, 0)]
    /\ Boot(<< >>)

\* every line written so far has been read and processed
Quiescent ==
    /\ mpc = "serving"
    /\ notify = {}
    /\ queue = << >>
    /\ cpc \in {"top", "collect"}
    /\ bidx = Len(batch)
    /\ \A f \in DOMAIN files : Get(file_positions, f, 0) = GetSize(files[f])

\* the process ends and a new one is built; its accumulator is seeded
RestartSeeded ==
    /\ runs = 1
    /\ Quiescent
    /\ runs' = 2
    /\ \E t \in now..Len(Clock) :
          /\ now' = t
          /\ current_week' = WeekKey(Clock[t])
    /\ processed_logs' = LoadExistingLogHashes(disk, {})
    /\ file_positions' = << >>
    /\ initial_read_complete' = << >>
    /\ notify' = {}
    /\ mpc' = "start_queue"
    /\ todo' = {}
    /\ queue' = << >>
    /\ batch' = << >>
    /\ bidx' = 0
    /\ is_running' = FALSE
    /\ cpc' = "idle"
    /\ emitted' = << >>
    /\ enqueued' = << >>
    /\ UNCHANGED <<lockVars, disk, append_errors, files, trunc_mark, result>>

FirstRunWrites == runs = 1 /\ ServiceWrites

NextTwice ==
    \/ Main
    \/ \E f \in AppFiles : OnModified(f, TRUE)
    \/ Dispatcher
    \/ FirstRunWrites
    \/ RestartSeeded

SpecTwice == InitTwice /\ [][NextTwice]_vars

\* the Events that the lines of the source files parse to and add_log routes
LogicalEvents ==
    {e \in UNION {{ParseLog(RawLine(f, files[f].lines[i])) :
                      i \in DOMAIN files[f].lines} : f \in DOMAIN files} :
        e # None /\ RouteOf(e) # "none"}

\* C3: with the fingerprint set reseeded from the partition files before the
\* second run starts, the second run writes nothing: no step of the second
\* run changes a partition file, no two stored records share a fingerprint,
\* and from the restart on the stored fingerprints are exactly those of the
\* Events of the source files, one record each.
C3_Step ==
    /\ NoTwoRecordsShareFingerprint(disk)'
    /\ runs = 2 => disk' = disk
    /\ runs' = 2 =>
         /\ StoredFingerprints(disk)' = {Fingerprint(e) : e \in LogicalEvents}'
         /\ StoredFingerprints(disk)' \subseteq processed_logs'

C3_SecondRunAddsNothing == [][C3_Step]_vars

\* C3 witness: the second run has read again and processed every line of
\* both files, two of them in one file, and the store holds one record each
C3_Witness ==
    /\ runs = 2
    /\ Len(enqueued) = 3
    /\ ProcessedCount = 3
    /\ Len(NewLogs(emitted)) = 3
    /\ Cardinality(LogicalEvents) = 3
    /\ Cardinality(Places(disk)) = 3

(***************************************************************************)
(* Further properties of SpecQueue                                         *)
(***************************************************************************)
\* C11: the queue is bounded: the number of RawLines waiting in it stays below
\* the number of RawLines the producers submit, however far the producers run
\* ahead of the consumer (a capacity that never comes to bear bounds nothing).
C11_QueueBounded == Len(queue) < MaxSubmit

\* the socketio.emit calls of the step, and those that carry an Event
NewEmits == SubSeq(emitted', Len(emitted) + 1, Len(emitted'))

RECURSIVE EventEmits(_)
EventEmits(emits) ==
    IF emits = << >> THEN << >>
    ELSE (IF Head(emits).event = "stats_update" THEN << >> ELSE <<Head(emits)>>)
         \o EventEmits(Tail(emits))

CategoryChannel(category) ==
    CASE category = "info"    -> "new_info_log"
      [] category = "error"   -> "new_error_log"
      [] category = "request" -> "new_request_log"

AlertLevels == {"error", "ERROR", "Error", "warn", "WARN", "Warn",
                "warning", "WARNING", "Warning"}

\* C12: the step that publishes an Event emits it on new_log, then on the
\* channel of its category, and then on error_detected if and only if its
\* level is error, warn or warning in any case; it emits the Event nowhere
\* else.
C12_Step ==
    (ProcessStep /\ ParseLog(CurrentItem) # None) =>
        LET e == ParseLog(CurrentItem)
        IN  EventEmits(NewEmits) =
              << [event |-> "new_log", data |-> e],
                 [event |-> CategoryChannel(e.log_type), data |-> e] >>
              \o (IF "level" \in DOMAIN e /\ e.level \in AlertLevels
                  THEN << [event |-> "error_detected", data |-> e] >>
                  ELSE << >>)

C12_PublishChannels == [][C12_Step]_vars

\* C12 witness: a warning Event has been published with an alert, and an info
\* Event and a request Event without one
C12_Witness ==
    /\ \E i \in DOMAIN emitted :
          emitted[i].event = "error_detected" /\ emitted[i].data.level = "warning"
    /\ \E i \in DOMAIN emitted :
          /\ emitted[i].event = "new_info_log"
          /\ emitted[i].data.level = "info"
          /\ i + 1 \in DOMAIN emitted => emitted[i + 1].event # "error_detected"
    /\ \E i \in DOMAIN emitted :
          /\ emitted[i].event = "new_request_log"
          /\ i + 1 \in DOMAIN emitted => emitted[i + 1].event # "error_detected"

(***************************************************************************)
(* SpecLive: the application running, with fair scheduling.  The main      *)
(* thread runs its start-up to the end, the observer thread delivers every *)
(* pending change notification and the consumer thread keeps running.  A   *)
(* service writes whole lines to the python info file once the observer    *)
(* runs; some of its lines carry a timestamp that is not ISO 8601, which   *)
(* parse_log copies as it is.                                              *)
(***************************************************************************)
TOdd == "01/Jul/2025 10:00:00"

LOdd == JsonLine([level |-> JStr("INFO"), message |-> JStr("started"),
                  timestamp |-> JStr(TOdd)])

LiveFiles == {PyInfo}
LiveLines == {LInfo, LOdd}

InitLive ==
    /\ now = 1
    /\ runs = 1
    /\ files = [f \in LiveFiles |-> File(<< >>, 0)]
    /\ Boot(<< >>)

MainLive ==
    \/ StartQueue
    \/ StartMonitor
    \/ \E f \in LiveFiles : ProcessFile(f, TRUE)
    \/ StartObserver

ObserverLive == \E f \in LiveFiles : OnModified(f, TRUE)

LiveWrites ==
    /\ mpc = "serving"
    /\ \E f \in LiveFiles, c \in LiveLines : AppendLine(f, c)

NextLive ==
    \/ MainLive
    \/ ObserverLive
    \/ Dispatcher
    \/ LiveWrites
    \/ Tick

SpecLive ==
    /\ InitLive
    /\ [][NextLive]_vars
    /\ WF_vars(MainLive)
    /\ WF_vars(ObserverLive)
    /\ WF_vars(Dispatcher)

\* a line that parse_log accepts and whose timestamp is ISO 8601
WellFormed(file_path, c) ==
    /\ ParseLog(RawLine(file_path, c)) # None
    /\ FromIsoOk(ParseLog(RawLine(file_path, c)).timestamp)

\* the number of well-formed lines written to the files so far
WellFormedCount ==
    Cardinality({<<f, i>> \in LiveFiles \X (1..MaxLines + 1) :
                    /\ i \in DOMAIN files[f].lines
                    /\ WellFormed(f, files[f].lines[i])})

StatsCount ==
    Cardinality({i \in DOMAIN emitted : emitted[i].event = "stats_update"})

WellFormedBroadcasts ==
    Cardinality({i \in DOMAIN emitted :
                    /\ emitted[i].event = "new_log"
                    /\ FromIsoOk(emitted[i].data.timestamp)})

\* C13: every well-formed line written to the watched file is eventually
\* followed by a new_log broadcast of its Event and by a stats_update
\* broadcast: once n well-formed lines are written, eventually n new_log
\* broadcasts of well-formed Events and n stats_update broadcasts are out.
C13_EventuallyBroadcast ==
    \A n \in 1..MaxLines :
        (WellFormedCount >= n) ~> (WellFormedBroadcasts >= n /\ StatsCount >= n)

(***************************************************************************)
(* SpecEmit: the dispatcher with a Socket.IO server whose emit can raise.  *)
(* A raising call is recorded in emitted with the field raised; _emit_log  *)
(* makes no further call after it.                                         *)
(***************************************************************************)
EmitInputs ==
    { RawLine(PyError, LErr),
      RawLine(PyInfo, LOdd),      \* stored; breaks the statistics from then on
      RawLine(PyInfo, LInfo) }

Raised(e) == [event |-> e.event, data |-> e.data, raised |-> TRUE]

\* the calls _emit_log makes when the call after the first k raises
EmitLogRaising(log, d, week, k) ==
    LET calls == EmitLog(log, d, week)
    IN  SubSeq(calls, 1, k) \o << Raised(calls[k + 1]) >>

\* a variant in which the exception leaves _emit_log and the batch loop
MutConsumerProcessEmitEscapes(k) ==
    /\ cpc = "process"
    /\ bidx < Len(batch)
    /\ LET parsed_log == ParseLog(batch[bidx + 1])
           store      == AddLog(disk, processed_logs, parsed_log, TRUE)
       IN  /\ parsed_log # None
           /\ k < Len(EmitLog(parsed_log, store.disk, current_week))
           /\ disk' = store.disk
           /\ processed_logs' = store.seen
           /\ emitted' = emitted \o
                 EmitLogRaising(parsed_log, store.disk, current_week, k)
    /\ bidx' = Len(batch)
    /\ cpc' = "top"
    /\ UNCHANGED <<lockVars, now, current_week, append_errors, watchVars, queue, batch,
                   is_running, enqueued, runs, result>>

\* one iteration of "for log_entry in batch" in which a socketio.emit call of
\* _emit_log raises after k calls went through; the except of _emit_log
\* catches it
ConsumerProcessEmitRaises(k) ==
    /\ cpc = "process"
    /\ bidx < Len(batch)
    /\ LET parsed_log == ParseLog(batch[bidx + 1])
           store      == AddLog(disk, processed_logs, parsed_log, TRUE)
       IN  /\ parsed_log # None
           /\ k < Len(EmitLog(parsed_log, store.disk, current_week))
           /\ disk' = store.disk
           /\ processed_logs' = store.seen
           /\ emitted' = emitted \o
                 EmitLogRaising(parsed_log, store.disk, current_week, k)
    /\ bidx' = bidx + 1
    /\ cpc' = IF bidx + 1 = Len(batch) THEN "top" ELSE "process"
    /\ UNCHANGED <<lockVars, now, current_week, append_errors, watchVars, queue, batch,
                   is_running, enqueued, runs, result>>

\* the number of calls of one _emit_log is at most four
EmitCalls == 0..3

NextEmit ==
    \/ \E log_entry \in EmitInputs : Submit(log_entry)
    \/ Dispatcher
    \/ \E k \in EmitCalls : ConsumerProcessEmitRaises(k)

SpecEmit == InitQueue /\ [][NextEmit]_vars

HasRaised(emits) == \E i \in DOMAIN emits : "raised" \in DOMAIN emits[i]

\* C14: a failure inside publish stays inside it.  The step that processes an
\* Event stores it (when add_log categorizes it), whether or not one of its
\* broadcasts or its statistics fail, keeps the broadcasts made so far, moves
\* the consumer on to the next item of the batch, and, when no emit call of
\* its own raises, broadcasts the Event on all its channels, whatever failed
\* for the items before it; the consumer thread never ends and leaves no item
\* of a batch out.
C14_Step ==
    /\ cpc' \in {"top", "collect", "process"}
    /\ bidx' # bidx => (bidx' = bidx + 1 \/ (cpc = "top" /\ bidx' = 0))
    /\ (cpc = "process" /\ cpc' = "top") => bidx' = Len(batch)
    /\ (ProcessStep /\ ParseLog(CurrentItem) # None) =>
        LET e == ParseLog(CurrentItem)
        IN  /\ RouteOf(e) # "none" => PlacesOf(disk', e) # {}
            /\ Len(emitted') >= Len(emitted)
            /\ SubSeq(emitted', 1, Len(emitted)) = emitted
            /\ ProcessedCount' = ProcessedCount + 1
            /\ cpc' = IF bidx + 1 = Len(batch) THEN "top" ELSE "process"
            /\ ~HasRaised(NewEmits) =>
                  EventEmits(NewEmits) =
                     << [event |-> "new_log", data |-> e],
                        [event |-> CategoryChannel(e.log_type), data |-> e] >>
                     \o (IF "level" \in DOMAIN e /\ e.level \in AlertLevels
                         THEN << [event |-> "error_detected", data |-> e] >>
                         ELSE << >>)

C14_PublishFailureContained == [][C14_Step]_vars

\* C14 witness: the first emit call for an Event raised, and the Event after
\* it in the same batch was stored and broadcast, as the first was stored
C14_Witness ==
    /\ Len(batch) >= 2 /\ bidx >= 2
    /\ ParseLog(batch[1]) # None /\ ParseLog(batch[2]) # None
    /\ batch[1] # batch[2]
    /\ emitted # << >>
    /\ "raised" \in DOMAIN emitted[1]
    /\ emitted[1].data = ParseLog(batch[1])
    /\ PlacesOf(disk, ParseLog(batch[1])) # {}
    /\ PlacesOf(disk, ParseLog(batch[2])) # {}
    /\ \E i \in DOMAIN emitted :
          emitted[i] = [event |-> "new_log", data |-> ParseLog(batch[2])]

(***************************************************************************)
(* The query interface of JSONAccumulator.  A line of a partition file is  *)
(* the record json.dump wrote, or a line that json.loads rejects: the      *)
(* beginning of a record whose write is not finished, or a damaged line.   *)
(***************************************************************************)
\* the first part of the text of a record, as a reader finds it in the file
\* between two flushes of the writer's buffer
Partial(log_entry) == [corrupt |-> "partial", of |-> log_entry]

\* a line that is not JSON
Damaged == [corrupt |-> "damaged"]

\* json.loads(line) raises JSONDecodeError
DecodeFails(line) == "corrupt" \in DOMAIN line

\* a line that is the beginning of a record
IsPartial(line) == DecodeFails(line) /\ line.corrupt = "partial"

\* get_logs called without a level: None, which "if level" takes as it takes
\* the empty string
NoLevel == ""

\* the level test of get_logs: "if level and
\* log_entry.get('level', '').lower() != level.lower(): continue"
LevelKept(log_entry, level) ==
    \/ level = NoLevel
    \/ Lower(Get(log_entry, "level", "")) = Lower(level)

\* a variant of the line loop of get_logs that gives up the file at the first
\* line that does not decode
RECURSIVE MutReadRecordsStopAtCorrupt(_, _)
MutReadRecordsStopAtCorrupt(lines, level) ==
    IF lines = << >> THEN << >>
    ELSE IF DecodeFails(Head(lines)) THEN << >>
    ELSE (IF LevelKept(Head(lines), level) THEN <<Head(lines)>> ELSE << >>)
         \o MutReadRecordsStopAtCorrupt(Tail(lines), level)

\* the line loop of get_logs over one file
RECURSIVE ReadRecords(_, _)
ReadRecords(lines, level) ==
    IF lines = << >> THEN << >>
    ELSE (IF DecodeFails(Head(lines)) THEN << >>
          ELSE IF LevelKept(Head(lines), level) THEN <<Head(lines)>>
          ELSE << >>)
         \o ReadRecords(Tail(lines), level)

\* glob.glob(self._get_file_path(log_type, week)): the names of the files
\* that match unified_<log_type>_logs_<week>.jsonl, log_type "all" standing
\* for "*".  No log type contains "_logs_", so the week part of a matching
\* name is the whole of the week asked for.
MatchingFiles(d, log_type, week) ==
    {n \in DOMAIN d : n.week = week /\ (log_type = "all" \/ n.type = log_type)}

\* the orders in which glob.glob can list a set of files
Listings(S) ==
    {o \in [1..Cardinality(S) -> S] : \A i, j \in DOMAIN o : i # j => o[i] # o[j]}

RECURSIVE ReadAll(_, _, _)
ReadAll(d, listing, level) ==
    IF listing = << >> THEN << >>
    ELSE ReadRecords(d[Head(listing)], level) \o ReadAll(d, Tail(listing), level)

\* get_logs(log_type, level, week): the lists it can return, one for each
\* order of the matching files
GetLogsResults(d, log_type, level, week) ==
    {ReadAll(d, listing, level) : listing \in Listings(MatchingFiles(d, log_type, week))}

\* filename.split("_")[-1].replace(".jsonl", "") on unified_<t>_logs_<week>.jsonl
\* with week = YYYY_Www: the text after the last underscore
LastPart(week) == <<week[2], week[3], week[4]>>

\* get_available_weeks: the set of the strings; sorted(list(weeks)) orders it
GetAvailableWeeks(d) == {LastPart(n.week) : n \in DOMAIN d}

(***************************************************************************)
(* SpecStore: the store with one thread appending (the consumer, in        *)
(* add_log) and request handlers of app.py calling get_logs and            *)
(* get_available_weeks.  A record too long for the buffer of the file      *)
(* object reaches the file in two writes, both inside _append_to_file and  *)
(* so under self.lock; get_logs and get_available_weeks take no lock.  The *)
(* process starts on an empty directory or on an info partition that holds *)
(* a record and a damaged line.  One call of the query interface is        *)
(* followed through each behaviour.                                        *)
(***************************************************************************)
StoreInputs ==
    { RawLine(PyError, LErr), RawLine(PyInfo, LInfo),
      RawLine(PyInfo, LWarn), RawLine(PyAccess, LReqA) }

StoreFound ==
    { << >>,
      WriteRecord(<< >>, GetFilePath("info", WeekKey(Clock[1])), Damaged),
      WriteRecord(AddLog(<< >>, {}, ParseLog(RawLine(PyInfo, LWarn)), TRUE).disk,
                  GetFilePath("info", WeekKey(Clock[1])), Damaged) }

InitStore ==
    /\ now = 1
    /\ runs = 1
    /\ files = << >>
    /\ \E d \in StoreFound : Boot(d)

\* _append_to_file up to the first flush: the lock is taken, the entry is
\* not a duplicate, the file is open and the first part of the record is
\* in it
AppendBegin(log_entry) ==
    /\ cpc = "idle"
    /\ Len(enqueued) < MaxSubmit
    /\ LET parsed_log == ParseLog(log_entry)
       IN  /\ parsed_log # None
           /\ RouteOf(parsed_log) # "none"
           /\ ~IsDuplicate(processed_logs, parsed_log)
           /\ disk' = WriteRecord(disk,
                                  GetFilePath(RouteOf(parsed_log), GetCurrentWeek),
                                  Partial(parsed_log))
    /\ cpc' = "writing"
    /\ enqueued' = Append(enqueued, log_entry)
    /\ UNCHANGED <<lockVars, now, processed_logs, current_week, append_errors, watchVars,
                   queue, batch, bidx, is_running, emitted, runs, result>>

\* the name of the file that is being written
Writing(d) ==
    CHOOSE n \in DOMAIN d : d[n] # << >> /\ IsPartial(d[n][Len(d[n])])

\* the rest of _append_to_file: the rest of the record and the newline are
\* written, the file is closed, the hash added and the lock released
AppendEnd ==
    /\ cpc = "writing"
    /\ LET n == Writing(disk)
           log_entry == disk[n][Len(disk[n])].of
       IN  /\ disk' = [disk EXCEPT ![n][Len(disk[n])] = log_entry]
           /\ processed_logs' = processed_logs \cup {GenerateLogHash(log_entry)}
    /\ cpc' = "idle"
    /\ UNCHANGED <<lockVars, now, current_week, append_errors, watchVars, queue, batch,
                   bidx, is_running, emitted, enqueued, runs, result>>

\* get_logs called without a week (None)
NoWeek == << >>

QueryTypes == {"all", "info", "error", "request"}
QueryLevels == {NoLevel, "ERROR", "info"}
QueryWeeks == {NoWeek} \cup {WeekKey(Clock[i]) : i \in DOMAIN Clock}
                       \cup {LastPart(WeekKey(Clock[i])) : i \in DOMAIN Clock}

\* whether the files get_logs reads hold the beginning of a record
ReadsPartial(d, log_type, week) ==
    \E n \in MatchingFiles(d, log_type, week) :
        \E i \in DOMAIN d[n] : IsPartial(d[n][i])

\* a request handler calls json_accumulator.get_logs(log_type, level, week);
\* the result records whether the call ran while _append_to_file held the
\* lock, and whether it read the beginning of a record
Query(log_type, level, week) ==
    /\ result = NoCall
    /\ LET w == IF week = NoWeek THEN current_week ELSE week
       IN  \E ret \in GetLogsResults(disk, log_type, level, w) :
              result' = [call |-> "get_logs", log_type |-> log_type,
                         level |-> level, week |-> week, ret |-> ret,
                         writing |-> cpc = "writing",
                         read_partial |-> ReadsPartial(disk, log_type, w)]
    /\ UNCHANGED <<lockVars, now, storeVars, watchVars, queueVars, emitted, enqueued, runs>>

\* a request handler calls json_accumulator.get_available_weeks()
AvailableWeeks ==
    /\ result = NoCall
    /\ result' = [call |-> "get_available_weeks", ret |-> GetAvailableWeeks(disk),
                  writing |-> cpc = "writing"]
    /\ UNCHANGED <<lockVars, now, storeVars, watchVars, queueVars, emitted, enqueued, runs>>

NextStore ==
    \/ \E log_entry \in StoreInputs : AppendBegin(log_entry)
    \/ AppendEnd
    \/ \E t \in QueryTypes, l \in QueryLevels, w \in QueryWeeks : Query(t, l, w)
    \/ AvailableWeeks
    \/ Tick

SpecStore == InitStore /\ [][NextStore]_vars

(***************************************************************************)
(* Properties of SpecStore                                                 *)
(***************************************************************************)
\* C15: reads are serialized against the writer: no get_logs runs while
\* _append_to_file holds the lock, and so none reads the beginning of a
\* record that is still being written.
C15_ReadsSerialized ==
    result.call = "get_logs" => (~result.writing /\ ~result.read_partial)

\* the partition files of a category and a week
Selected(d, category, week) ==
    {n \in DOMAIN d : n.week = week /\ (category = "all" \/ n.type = category)}

\* the well-formed records of a file with the level asked for, in file order
Wanted(lines, level) ==
    SelectSeq(lines,
              LAMBDA r : /\ "corrupt" \notin DOMAIN r
                         /\ \/ level = NoLevel
                            \/ "level" \in DOMAIN r /\ Lower(r.level) = Lower(level))

RECURSIVE WantedOfAll(_, _, _)
WantedOfAll(d, listing, level) ==
    IF listing = << >> THEN << >>
    ELSE Wanted(d[Head(listing)], level) \o WantedOfAll(d, Tail(listing), level)

\* C16: get_logs(category, level, week) returns, file by file, exactly the
\* well-formed records of the partition files of that category and week whose
\* level is the level asked for, ignoring case (all of them without a level),
\* each once and in file order; lines that do not decode are left out.
C16_Step ==
    (result' # result /\ result'.call = "get_logs" /\ result'.week # NoWeek) =>
        \E listing \in Listings(Selected(disk, result'.log_type, result'.week)) :
            result'.ret = WantedOfAll(disk, listing, result'.level)

C16_QueryReturnsSelected == [][C16_Step]_vars

\* C16 witness: the query for level ERROR over all categories of the week has
\* returned the one error record, leaving out a warning record and a damaged
\* line of the info partition
C16_Witness ==
    /\ result.call = "get_logs"
    /\ result.log_type = "all" /\ result.level = "ERROR"
    /\ result.week = WeekKey(Clock[1])
    /\ cpc = "idle"
    /\ Cardinality(Selected(disk, "all", WeekKey(Clock[1]))) = 2
    /\ \E n \in Selected(disk, "all", WeekKey(Clock[1])) :
          /\ Len(disk[n]) = 2
          /\ Get(disk[n][1], "level", "") = "warning"
          /\ disk[n][2] = Damaged
    /\ Len(result.ret) = 1
    /\ result.ret[1].level = "error"

\* C17: get_available_weeks returns exactly the week keys of the partition
\* files, in the form add_log used in their names, and each returned key,
\* given to get_logs, selects the partition files it was derived from.
C17_Step ==
    (result' # result /\ result'.call = "get_available_weeks") =>
        /\ result'.ret = {n.week : n \in DOMAIN disk}
        /\ \A week \in result'.ret : Selected(disk, "all", week) # {}

C17_WeeksRoundTrip == [][C17_Step]_vars

(***************************************************************************)
(* SpecParse: parse_log applied to one RawLine, drawn from every           *)
(* combination of a file path and a line content of the sets below.        *)
(***************************************************************************)
\* the level of the object is a number
LLevelNum == JsonLine([level |-> [t |-> "num", v |-> 3],
                       message |-> JStr("started"), timestamp |-> JStr(T1)])

\* the request entry a node service writes
NodeRequestMessage(response_time) ==
    JDict([endpoint |-> JStr("/api/users"), ip |-> JStr("::1"),
           level |-> JStr("INFO"), method |-> JStr("POST"),
           status_code |-> [t |-> "num", v |-> 201],
           response_time |-> JStr(response_time)])

LNodeReq == JsonLine([level |-> JStr("info"),
                      message |-> NodeRequestMessage("25.5ms"),
                      timestamp |-> JStr(T1)])

\* a line of text with a date-time and a severity token
LTextErr == TextLine("2025-07-01 10:00:00 ERROR disk full")

\* the contents: the lines of the other specifications; JSON texts that are
\* not objects (a number, a list); objects without level, without timestamp,
\* without message, with an empty level, with an object as the message of an
\* error; a node request entry whose response time is not a number
ParseContents ==
    {LErr, LInfo, LWarn, LReqA, LBad, LTextErr, LOdd, LLevelNum, LNodeReq,
     [kind |-> "json", val |-> [t |-> "num", v |-> 5]],
     [kind |-> "json", val |-> [t |-> "list", v |-> << >>]],
     JsonLine([message |-> JStr("started"), timestamp |-> JStr(T1)]),
     JsonLine([level |-> JStr("INFO"), message |-> JStr("started")]),
     JsonLine([level |-> JStr("INFO"), timestamp |-> JStr(T1)]),
     JsonLine([level |-> JStr(""), message |-> JStr("started"),
               timestamp |-> JStr(T1)]),
     JsonLine([level |-> JStr("ERROR"),
               message |-> JDict([code |-> [t |-> "num", v |-> 7]]),
               timestamp |-> JStr(T1)]),
     JsonLine([level |-> JStr("info"), message |-> NodeRequestMessage("fast"),
               timestamp |-> JStr(T1)])}

ParseInputs ==
    {RawLine(p, c) : p \in {PyError, PyInfo, PyAccess, PyOther, NodeError,
                            NodeAccess, NodeRequest},
                     c \in ParseContents}

InitParse ==
    /\ now = 1
    /\ runs = 1
    /\ files = << >>
    /\ Boot(<< >>)

\* the consumer calls self.log_parser.parse_log(log_entry)
Normalize(log_entry) ==
    /\ result = NoCall
    /\ result' = [call |-> "parse_log", arg |-> log_entry,
                  ret |-> ParseLog(log_entry)]
    /\ UNCHANGED <<lockVars, now, storeVars, watchVars, queueVars, emitted, enqueued, runs>>

NextParse == \E log_entry \in ParseInputs : Normalize(log_entry)

SpecParse == InitParse /\ [][NextParse]_vars

(***************************************************************************)
(* Properties of SpecParse                                                 *)
(***************************************************************************)
\* what parse_log builds: a dict with the fields every category carries
IsEvent(r) == {"source", "log_type", "timestamp", "file_path"} \subseteq DOMAIN r

\* C18: normalize never raises: for every RawLine (text that is not JSON, JSON
\* that is not an object, an object with a field missing or of the wrong type)
\* the call returns, either nothing or an Event.
C18_NormalizeNeverRaises ==
    result.call = "parse_log" => (result.ret = None \/ IsEvent(result.ret))

\* a call on an object whose level is a number returned nothing
C18_Witness ==
    /\ result.call = "parse_log"
    /\ result.arg.content = LLevelNum
    /\ result.ret = None


ParsedObject ==
    /\ result.call = "parse_log"
    /\ result.arg.content.kind = "json"
    /\ result.arg.content.val.t = "dict"
    /\ result.ret # None

LevelIn(content, levels) ==
    /\ "level" \in DOMAIN content
    /\ content["level"].t = "str"
    /\ Lower(content["level"].v) \in levels

\* the category the shape of a record alone would give it
ShapeCategory(content) ==
    IF {"status_code", "method"} \subseteq DOMAIN content THEN "request"
    ELSE IF LevelIn(content, {"error", "warn", "warning"}) THEN "error"
    ELSE "info"

\* the category the file of a record gives it, and its level in other files
FileCategory(file_path, content) ==
    IF \/ "requestsLogs" \in file_path
       \/ {"python_logs", "access-"} \subseteq file_path
    THEN "request"
    ELSE IF LevelIn(content, {"error", "warn", "warning"}) THEN "error"
    ELSE "info"

NonEmptyStr(r, f) == f \in DOMAIN r /\ r[f] # ""

\* C20: every Event has non-empty source, category, level and timestamp
\* fields, request Events included.
C20_EventFieldsNonEmpty ==
    (result.call = "parse_log" /\ result.ret # None) =>
        /\ NonEmptyStr(result.ret, "source")
        /\ NonEmptyStr(result.ret, "log_type")
        /\ NonEmptyStr(result.ret, "level")
        /\ "timestamp" \in DOMAIN result.ret
        /\ result.ret.timestamp.t = "str"
        /\ result.ret.timestamp.v # ""


(***************************************************************************)
(* SpecBatch: the dispatcher under a burst.  One producer hands the queue  *)
(* the lines of a log, one add_log call per line, up to MaxBurst lines,    *)
(* more than a batch holds; stop() may be called at any moment and the     *)
(* producer goes on after it.  The consumer thread is scheduled fairly;    *)
(* its writes succeed.                                                     *)
(***************************************************************************)
\* the largest number of RawLines of the burst
MaxBurst == 11

\* the i-th line of the burst: an error line, a line that is not JSON and a
\* warning line in turn
BurstLine(i) ==
    CASE i % 3 = 1 -> RawLine(PyError, LErr)
      [] i % 3 = 2 -> RawLine(PyInfo, LBad)
      [] OTHER     -> RawLine(PyError, LWarn)

\* the producer calls LogQueue.add_log with the next line of the burst
SubmitBurst ==
    /\ Len(enqueued) < MaxBurst
    /\ queue' = Put(queue, BurstLine(Len(enqueued) + 1))
    /\ enqueued' = Append(enqueued, BurstLine(Len(enqueued) + 1))
    /\ UNCHANGED <<lockVars, now, storeVars, watchVars, batch, bidx, is_running, cpc,
                   emitted, runs, result>>

\* LogQueue.stop(): is_running = False, then processing_thread.join() waits
Stop ==
    /\ result = NoCall
    /\ is_running' = FALSE
    /\ result' = [call |-> "stop", ret |-> "joining"]
    /\ UNCHANGED <<lockVars, now, storeVars, watchVars, queue, batch, bidx, cpc, emitted,
                   enqueued, runs>>

\* processing_thread.join() returns once _process_logs has returned
JoinReturns ==
    /\ result = [call |-> "stop", ret |-> "joining"]
    /\ cpc = "stopped"
    /\ result' = [call |-> "stop", ret |-> "returned"]
    /\ UNCHANGED <<lockVars, now, storeVars, watchVars, queueVars, emitted, enqueued, runs>>

NextBatch ==
    \/ SubmitBurst
    \/ Dispatcher
    \/ Stop
    \/ JoinReturns

SpecBatch ==
    InitQueue /\ [][NextBatch]_vars /\ WF_vars(Dispatcher) /\ WF_vars(JoinReturns)


(***************************************************************************)
(* Properties of SpecBatch                                                 *)
(***************************************************************************)
\* the consumer has left its loop with nothing half done: every RawLine taken
\* from the queue was normalized, appended and broadcast, and the RawLines
\* that were not are exactly those still in the queue
StoppedClean ==
    /\ bidx = Len(batch)
    /\ queue = SubSeq(enqueued, ProcessedCount + 1, Len(enqueued))
    /\ NewLogs(emitted) = ParsedOf(ProcessedLines)
    /\ \A i \in 1..ProcessedCount :
          LET e == ParseLog(ProcessedLines[i]) IN
          (e # None /\ RouteOf(e) # "none")
             => (HashesOf(<<e>>) \subseteq processed_logs \/ e \in append_errors)

StopReturned == result = [call |-> "stop", ret |-> "returned"]

\* C21: after stop() the consumer loop ends and the join returns, whether the
\* queue is empty or the producer goes on enqueuing; when the loop has ended
\* every RawLine that was dequeued has been processed, and only the RawLines
\* still in the queue are left.
C21_StopDrainsBatch ==
    /\ [](cpc = "stopped" => StoppedClean)
    /\ (result.call = "stop") ~> StopReturned

\* stop() has returned after lines were processed, with lines left in the queue
C21_Witness ==
    /\ StopReturned
    /\ cpc = "stopped"
    /\ queue # << >>
    /\ ProcessedCount >= 2


\* the number of RawLines of the batches before the current one
BeforeBatch == Len(enqueued) - Len(queue) - Len(batch)

\* C29: a batch that is processed holds between 1 and batch_size RawLines; the
\* batch and the queue behind it are always the RawLines handed in, in the
\* order they were handed in, less those of the earlier batches; a RawLine
\* joins the batch only as the head of the queue leaving it, and a batch is
\* given up only when all of it has been processed.
C29_Step ==
    /\ Len(batch') <= batch_size
    /\ cpc' = "process" => Len(batch') >= 1
    /\ BeforeBatch' >= 0
    /\ batch' \o queue' = SubSeq(enqueued', BeforeBatch' + 1, Len(enqueued'))
    /\ bidx' <= Len(batch')
    /\ queue' # queue =>
          \/ queue' = Append(queue, enqueued'[Len(enqueued')]) /\ batch' = batch
          \/ queue # << >> /\ queue' = Tail(queue)
               /\ batch' = Append(batch, Head(queue))
    /\ batch' # batch =>
          \/ queue # << >> /\ batch' = Append(batch, Head(queue))
          \/ batch' = << >> /\ bidx = Len(batch)
    /\ NewLogs(emitted') = ParsedOf(ProcessedLines')

C29_BatchBounds == [][C29_Step]_vars

\* a full batch is being processed while more RawLines wait in the queue
C29_Witness ==
    /\ cpc = "process"
    /\ Len(batch) = batch_size
    /\ queue # << >>


(***************************************************************************)
(* SpecKinds: the dispatcher fed with the entries test_logs.py appends to  *)
(* the six kinds of source file.  Writes succeed.                          *)
(***************************************************************************)
\* datetime.now().isoformat() + "Z" of the node entries
TNode == "2025-07-01T10:00:00.000000Z"

\* python_logs of add_test_python_logs
TestPyInfo ==
    JsonLine([timestamp |-> JStr(T1), level |-> JStr("INFO"),
              message |-> JStr("TEST: User login successful"),
              path |-> JStr("/app/test1.py:123"),
              request_id |-> JStr("req-test-12345"),
              client_ip |-> JStr("192.168.1.100"),
              user_id |-> JStr("test_user_999")])
TestPyError ==
    JsonLine([timestamp |-> JStr(T1), level |-> JStr("ERROR"),
              message |-> JStr("TEST: Database connection failed"),
              path |-> JStr("/app/test2.py:456"),
              request_id |-> JStr("req-test-67890"),
              client_ip |-> JStr("192.168.1.100"),
              user_id |-> JStr("test_user_999")])
TestPyAccess ==
    JsonLine([timestamp |-> JStr(T1), level |-> JStr("INFO"),
              message |-> JStr("GET /test/endpoint - 200"),
              path |-> JStr("/test/endpoint"),
              status_code |-> [t |-> "num", v |-> 200],
              duration_ms |-> [t |-> "float", v |-> 452],
              user_id |-> JStr("test_user_999"),
              request_id |-> JStr("req-test-access-123"),
              client_ip |-> JStr("192.168.1.100")])

\* the message object of node_request_log and node_access_log
TestNodeMessage(endpoint, method, status_code, response_time) ==
    JDict([endpoint |-> JStr(endpoint), ip |-> JStr("::ffff:192.168.1.100"),
           level |-> JStr("INFO"), method |-> JStr(method),
           req_id |-> JStr("req-test-node"),
           response_time |-> JStr(response_time),
           status_code |-> [t |-> "num", v |-> status_code],
           user_agent |-> JStr("TestAgent/1.0"),
           user_id |-> JStr("test_user_999")])

TestNodeRequest ==
    JsonLine([level |-> JStr("info"),
              message |-> TestNodeMessage("/test1/api/users", "POST", 201, "25.5ms"),
              timestamp |-> JStr(TNode)])
TestNodeError ==
    JsonLine([timestamp |-> JStr(TNode), level |-> JStr("error"),
              message |-> JStr("TEST1: Authentication failed"),
              req_id |-> JStr("req-test-node-error-456"),
              ip |-> JStr("::ffff:192.168.1.100")])
TestNodeAccess ==
    JsonLine([level |-> JStr("info"),
              message |-> TestNodeMessage("/test3/health", "GET", 200, "12ms"),
              timestamp |-> JStr(TNode)])

\* the line each kind of file receives
TestEntries ==
    { RawLine(PyInfo, TestPyInfo), RawLine(PyError, TestPyError),
      RawLine(PyAccess, TestPyAccess), RawLine(NodeRequest, TestNodeRequest),
      RawLine(NodeError, TestNodeError), RawLine(NodeAccess, TestNodeAccess) }

NextKinds ==
    \/ \E log_entry \in TestEntries : Submit(log_entry)
    \/ Dispatcher

SpecKinds == InitQueue /\ [][NextKinds]_vars

\* the unified file the test names for the lines of a source file
StatedPartition(file_path) ==
    IF file_path \in {PyAccess, NodeRequest} THEN "request"
    ELSE IF file_path \in {PyError, NodeError} THEN "error"
    ELSE "info"

\* the records of a unified file that come from the line log_entry
StoredFrom(d, log_type, log_entry) ==
    SelectSeq(Records(d, GetFilePath(log_type, current_week)),
              LAMBDA r : /\ r.file_path = log_entry.file_path
                         /\ r.timestamp = log_entry.content.val.v["timestamp"])

\* C22: every test entry the consumer has finished with is stored in the
\* unified file the test names for its source file: request for python access
\* and node requestsLogs, error for python error and node errorLogs, info for
\* python info and node accessLogs.
C22_StoredWhereStated ==
    \A i \in 1..ProcessedCount :
        StoredFrom(disk, StatedPartition(ProcessedLines[i].file_path),
                   ProcessedLines[i]) # << >>


(***************************************************************************)
(* Properties of the handling of one change notification (SpecTail,        *)
(* SpecRotate)                                                             *)
(***************************************************************************)
\* the step is on_modified for file_path
Handles(file_path) == file_path \in notify /\ file_path \notin notify'

\* the RawLines the step enqueues
NewRawLines == SubSeq(enqueued', Len(enqueued) + 1, Len(enqueued'))

\* the offsets of a file at which a line begins, and its end
LineStarts(file) ==
    {SumLen(SubSeq(file.lines, 1, k)) : k \in 0..Len(file.lines)}

\* C23: handling a change notification emits whole lines only and leaves the
\* Cursor at the beginning of a line, also when the last line of the file has
\* been written in part.
C23_WholeLinesOnly ==
    [][\A f \in DOMAIN files :
          Handles(f) =>
            /\ \A i \in DOMAIN NewRawLines : NewRawLines[i].content.kind # "frag"
            /\ f \in DOMAIN file_positions' =>
                  file_positions'[f] \in LineStarts(files[f])]_vars

\* C24: when a change notification is handled for a file that is smaller than
\* its stored Cursor, the stored Cursor is at most the size of the file when
\* the handler returns.
C24_CursorResetOnShrink ==
    [][\A f \in DOMAIN files :
          (/\ Handles(f)
           /\ Get(initial_read_complete, f, FALSE)
           /\ GetSize(files[f]) < Get(file_positions, f, 0))
            => file_positions'[f] <= GetSize(files[f])]_vars


(***************************************************************************)
(* SpecFaulty: the watcher on files whose reads may fail.  Two log files   *)
(* exist when the watcher starts, one of them possibly with a line; a      *)
(* third is created once the observer runs.  The services append whole     *)
(* lines while the observer runs; opening or reading a file may raise, at  *)
(* the initial read and at any change notification.                        *)
(***************************************************************************)
StartupFiles == {PyError, PyInfo}
LaterFiles   == {PyOther}
FaultyLines  == {LErr, LWarn}

InitFaulty ==
    /\ now = 1
    /\ runs = 1
    /\ \E lines \in {<< >>, <<LErr>>} :
          files = [f \in StartupFiles |->
                     File(IF f = PyError THEN lines ELSE << >>, 0)]
    /\ Boot(<< >>)

\* a service creates a log file under a watched directory; watchdog reports
\* the creation to on_created, which LogFileHandler does not override
CreateFile(file_path) ==
    /\ mpc = "serving"
    /\ file_path \notin DOMAIN files
    /\ files' = Assign(files, file_path, File(<< >>, 0))
    /\ UNCHANGED <<lockVars, now, storeVars, file_positions, initial_read_complete, notify,
                   mpc, todo, trunc_mark, queueVars, emitted, enqueued, runs,
                   result>>

\* a service appends a line to a file that exists, while the observer runs
FaultyWrites ==
    /\ mpc = "serving"
    /\ TotalLines(DOMAIN files) < MaxAppends
    /\ \E f \in DOMAIN files, c \in FaultyLines : AppendLine(f, c)

NextFaulty ==
    \/ StartQueue
    \/ StartMonitor
    \/ \E f \in StartupFiles, read_ok \in ReadOutcomes : ProcessFile(f, read_ok)
    \/ StartObserver
    \/ \E f \in StartupFiles \cup LaterFiles, read_ok \in ReadOutcomes :
          OnModified(f, read_ok)
    \/ \E f \in LaterFiles : CreateFile(f)
    \/ FaultyWrites

SpecFaulty == InitFaulty /\ [][NextFaulty]_vars


(***************************************************************************)
(* Properties of SpecFaulty                                                *)
(***************************************************************************)
InitialReadDone(f) == Get(initial_read_complete, f, FALSE)

\* every non-empty line of the file has been emitted, once and in file order
AllEmitted(f) == FromFile(enqueued, f) = NonBlank(files[f].lines)

\* C25: a change notification for a file whose initial read has not completed
\* is ignored: the step enqueues nothing and changes neither the Cursors nor
\* the flags; and what has been emitted of a file is at any time a prefix of
\* its lines, so that no line is emitted twice.
C25_Step ==
    /\ \A f \in DOMAIN files :
          (Handles(f) /\ ~InitialReadDone(f)) =>
             /\ queue' = queue
             /\ enqueued' = enqueued
             /\ file_positions' = file_positions
             /\ initial_read_complete' = initial_read_complete
    /\ \A f \in DOMAIN files' :
          IsPrefix(FromFile(enqueued', f), NonBlank(files'[f].lines))

C25_IgnoredBeforeInitialRead == [][C25_Step]_vars

\* the notification for a line written to the file created later was handled
\* and nothing of the file was enqueued
C25_Witness ==
    /\ PyOther \in DOMAIN files
    /\ files[PyOther].lines # << >>
    /\ PyOther \notin notify
    /\ ~InitialReadDone(PyOther)
    /\ FromFile(enqueued, PyOther) = << >>

\* C26: of a log file created after the watcher has started, the lines written
\* to it have been emitted once the change notifications that followed the
\* writes have been handled.
C26_NewFileTailed ==
    \A f \in LaterFiles \cap DOMAIN files :
        f \notin notify => AllEmitted(f)

\* C27: a read attempt that fails costs that attempt only, the initial read
\* included: when a later change notification for the file is handled and the
\* file can be read, all its lines have been emitted afterwards.
C27_RetriedOnNextNotification ==
    [][\A f \in StartupFiles :
          OnModified(f, TRUE) => AllEmitted(f)']_vars

\* C28: when the read fails while a change notification is handled, the step
\* enqueues nothing, keeps the Cursor of the file and leaves the Cursors and
\* flags of all files, the observer and the pending notifications of the
\* other files as they were; a later notification of a file whose initial
\* read was done, handled when the file can be read, emits all its lines.
C28_Step ==
    \A f \in DOMAIN files :
        /\ OnModified(f, FALSE) =>
              /\ NewRawLines = << >>
              /\ queue' = queue
              /\ file_positions' = file_positions
              /\ initial_read_complete' = initial_read_complete
              /\ mpc' = mpc
              /\ notify' = notify \ {f}
        /\ (OnModified(f, TRUE) /\ InitialReadDone(f)) => AllEmitted(f)'

C28_ReadFailureIsolated == [][C28_Step]_vars

\* the notification for a line of the error file was handled with a failing
\* read: the line lies behind the Cursor, which is where the initial read
\* left it; the info file has been read to its end
C28_Witness ==
    /\ mpc = "serving"
    /\ notify = {}
    /\ InitialReadDone(PyError) /\ InitialReadDone(PyInfo)
    /\ files[PyError].lines = <<LErr, LWarn>>
    /\ file_positions[PyError] = LineLen(LErr)
    /\ FromFile(enqueued, PyError) = <<LErr>>
    /\ files[PyInfo].lines # << >>
    /\ file_positions[PyInfo] = GetSize(files[PyInfo])


(***************************************************************************)
(* A failing write of the store (SpecQueue)                                *)
(***************************************************************************)
\* the consumer processes an Event that add_log categorizes and that is not a
\* duplicate, and no partition file changes: the write raised
FailedAppendStep ==
    /\ ProcessStep
    /\ ParseLog(CurrentItem) # None
    /\ RouteOf(ParseLog(CurrentItem)) # "none"
    /\ ~IsDuplicate(processed_logs, ParseLog(CurrentItem))
    /\ disk' = disk

\* C30: a failing write is contained in the store: add_log returns and the
\* consumer goes on (it publishes the Event and moves to the next item); the
\* Event is neither stored nor put back on the queue, and its fingerprint is
\* not added to the set, so that a later append of it is not a duplicate.
C30_Step ==
    FailedAppendStep =>
        /\ processed_logs' = processed_logs
        /\ ~IsDuplicate(processed_logs', ParseLog(CurrentItem))
        /\ queue' = queue
        /\ enqueued' = enqueued
        /\ batch' = batch
        /\ cpc' = IF bidx + 1 = Len(batch) THEN "top" ELSE "process"
        /\ NewEmits # << >>
        /\ NewEmits[1] = Emit("new_log", ParseLog(CurrentItem))
        /\ ParseLog(CurrentItem) \in append_errors'

C30_AppendFailureContained == [][C30_Step]_vars

\* the write of an Event raised, and a later line that parses to the same
\* Event was stored
C30_Witness ==
    \E e \in append_errors :
        /\ PlacesOf(disk, e) # {}
        /\ IsDuplicate(processed_logs, e)


(***************************************************************************)
(* The generic fallback and the defaults of the parser (SpecParse)         *)
(***************************************************************************)
\* re.search(r'\b(DEBUG|INFO|WARN|WARNING|ERROR|FATAL|TRACE)\b', content,
\* re.IGNORECASE) on the texts that occur: the token found, "" when none
SeverityIn(text) ==
    IF text = "2025-07-01 10:00:00 ERROR disk full" THEN "ERROR" ELSE ""

\* re.search(r'(\d{4}-\d{2}-\d{2}[\sT]\d{2}:\d{2}:\d{2})', content) on the
\* texts that occur: the date-time found, "" when none
DateTimeIn(text) ==
    IF text = "2025-07-01 10:00:00 ERROR disk full" THEN "2025-07-01 10:00:00"
    ELSE ""

\* parse_generic_log: the entry built for a line that is not JSON.  Only
\* parse_node_log and parse_python_log call it, and nothing calls those.
ParseGenericLog(file_path, text) ==
    [source |-> "generic", log_type |-> "unknown",
     level |-> IF SeverityIn(text) # "" THEN Lower(SeverityIn(text)) ELSE "info",
     message |-> JStr(text),
     timestamp |-> JStr(IF DateTimeIn(text) # "" THEN DateTimeIn(text) ELSE NowIso),
     file_path |-> file_path]

\* C31: a RawLine whose content is not a structured record is not dropped:
\* parse_log returns the Event of the generic fallback, whose level is the
\* severity token of the text in lower case, or info, and whose timestamp is
\* the date-time of the text, or the time of the call.
C31_UndecodableGoesToFallback ==
    (result.call = "parse_log" /\ result.arg.content.kind = "text") =>
        /\ result.ret # None
        /\ result.ret.level =
               ParseGenericLog(result.arg.file_path, result.arg.content.text).level
        /\ result.ret.timestamp =
               ParseGenericLog(result.arg.file_path, result.arg.content.text).timestamp

\* parse_log was called on a JSON object that has no level
SeverityAbsent ==
    /\ result.call = "parse_log"
    /\ result.arg.content.kind = "json"
    /\ result.arg.content.val.t = "dict"
    /\ "level" \notin DOMAIN result.arg.content.val.v
    /\ {"message", "timestamp"} \subseteq DOMAIN result.arg.content.val.v

\* C32: a structured record without a level becomes an Event with level info,
\* of category info unless it comes from a request file; it is not dropped.
C32_AbsentSeverityIsInfo ==
    SeverityAbsent =>
        /\ result.ret # None
        /\ Get(result.ret, "level", "") = "info"
        /\ ~IsRequestLog(result.arg.file_path, result.arg.content.val.v)
              => result.ret.log_type = "info"

\* parse_log was called on a node request entry, complete but for a response
\* time that float() rejects
UnparsableDuration ==
    /\ result.call = "parse_log"
    /\ Contains(result.arg.file_path, "requestsLogs")
    /\ result.arg.content.kind = "json"
    /\ result.arg.content.val.t = "dict"
    /\ LET content == result.arg.content.val.v
       IN  /\ HasKeys(content, {"message", "level", "timestamp"})
           /\ content["message"].t = "dict"
           /\ HasKeys(content["message"].v, {"endpoint", "ip", "method",
                                             "status_code", "response_time"})
           /\ content["message"].v["response_time"].t = "str"
           /\ FloatOfMs(content["message"].v["response_time"].v) = None

\* C33: a request record whose duration string is not a number becomes a
\* request Event with duration 0; it is not dropped.
C33_UnparsableDurationIsZero ==
    UnparsableDuration =>
        /\ result.ret # None
        /\ result.ret.log_type = "request"
        /\ result.ret.response_time.v = 0


(***************************************************************************)
(* SpecWeek: _get_current_week called on two days, drawn from the days     *)
(* around the turn of the years 2020/2021 (ISO week 53) and 2024/2025 and  *)
(* from the first days of 2024.                                            *)
(***************************************************************************)
WeekDates ==
    {<<2020, 12, d>> : d \in 27..31} \cup {<<2021, 1, d>> : d \in 1..4}
    \cup {<<2024, 1, d>> : d \in 1..2}
    \cup {<<2024, 12, d>> : d \in 28..31} \cup {<<2025, 1, d>> : d \in 1..6}

\* datetime.now().strftime("%Y_W%V") evaluated on day a and on day b
GetWeeks(a, b) ==
    /\ result = NoCall
    /\ result' = [call |-> "_get_current_week", a |-> a, b |-> b,
                  ka |-> WeekKey(a), kb |-> WeekKey(b)]
    /\ UNCHANGED <<lockVars, now, storeVars, watchVars, queueVars, emitted, enqueued, runs>>

NextWeek == \E a \in WeekDates, b \in WeekDates : GetWeeks(a, b)

SpecWeek == InitParse /\ [][NextWeek]_vars

\* two days lie in the same ISO week: the same Monday-to-Sunday span
\* (ordinal 1 is a Monday)
SameIsoWeek(a, b) == (Ordinal(a) - 1) \div 7 = (Ordinal(b) - 1) \div 7

\* C34: the week key identifies one ISO week: two days get the same key if
\* and only if they lie in the same ISO week, also around a year boundary.
C34_WeekKeyIdentifiesIsoWeek ==
    result.call = "_get_current_week" =>
        ((result.ka = result.kb) <=> SameIsoWeek(result.a, result.b))


(***************************************************************************)
(* Persist before broadcast (SpecQueue)                                    *)
(***************************************************************************)
\* whether a log entry is a record of some partition file of d
Stored(d, log) == \E n \in DOMAIN d : \E j \in DOMAIN d[n] : d[n][j] = log

\* C35: every Event broadcast on new_log is, at the moment of the broadcast,
\* a record of some partition file: an Event whose source file add_log does
\* not categorize, or whose append failed, is not broadcast.
C35_Step ==
    \A i \in (Len(emitted) + 1)..Len(emitted') :
        emitted'[i].event = "new_log" => Stored(disk', emitted'[i].data)

C35_BroadcastOnlyStored == [][C35_Step]_vars


(***************************************************************************)
(* SpecLock: two threads call JSONAccumulator.add_log directly, each once, *)
(* with Events drawn from LockEvents, so that the calls may carry the same *)
(* fingerprint.  The statements of _append_to_file are separate steps; the *)
(* file write may raise.                                                   *)
(***************************************************************************)
LockEvents == {ParseLog(RawLine(PyError, LErr)), ParseLog(RawLine(PyError, LWarn))}

\* add_log up to the call of _append_to_file: the week and the route are
\* computed, then the thread waits at "with self.lock"
CallAddLog(t, parsed_log) ==
    /\ callers[t] = Idle
    /\ callers' = [callers EXCEPT ![t] =
                     [pc |-> "wait", log |-> parsed_log,
                      name |-> GetFilePath(RouteOf(parsed_log), GetCurrentWeek),
                      raised |-> FALSE]]
    /\ UNCHANGED <<now, storeVars, watchVars, queueVars, emitted, enqueued,
                   runs, result, lock>>

\* a variant of the with statement that enters without the lock being free
MutAcquireNoLock(t) ==
    /\ callers[t].pc = "wait"
    /\ lock' = t
    /\ callers' = [callers EXCEPT ![t].pc = "test"]
    /\ UNCHANGED <<now, storeVars, watchVars, queueVars, emitted, enqueued,
                   runs, result>>

\* with self.lock: entered when no thread holds the lock
Acquire(t) ==
    /\ callers[t].pc = "wait"
    /\ lock = "free"
    /\ lock' = t
    /\ callers' = [callers EXCEPT ![t].pc = "test"]
    /\ UNCHANGED <<now, storeVars, watchVars, queueVars, emitted, enqueued,
                   runs, result>>

\* log_hash = ...; if log_hash in self.processed_logs: return
TestProcessed(t) ==
    /\ callers[t].pc = "test"
    /\ callers' = [callers EXCEPT ![t].pc =
                     IF IsDuplicate(processed_logs, callers[t].log)
                     THEN "release" ELSE "write"]
    /\ UNCHANGED <<now, storeVars, watchVars, queueVars, emitted, enqueued,
                   runs, result, lock>>

\* makedirs, open(file_path, 'a'), json.dump, write: the record is appended,
\* or an exception takes the thread to the except branch
WriteFile(t, io_ok) ==
    /\ callers[t].pc = "write"
    /\ IF io_ok
       THEN /\ disk' = WriteRecord(disk, callers[t].name, callers[t].log)
            /\ callers' = [callers EXCEPT ![t].pc = "mark"]
            /\ UNCHANGED append_errors
       ELSE /\ append_errors' = append_errors \cup {callers[t].log}
            /\ callers' = [callers EXCEPT ![t].pc = "release", ![t].raised = TRUE]
            /\ UNCHANGED disk
    /\ UNCHANGED <<now, processed_logs, current_week, watchVars, queueVars,
                   emitted, enqueued, runs, result, lock>>

\* self.processed_logs.add(log_hash)
MarkProcessed(t) ==
    /\ callers[t].pc = "mark"
    /\ processed_logs' = processed_logs \cup {GenerateLogHash(callers[t].log)}
    /\ callers' = [callers EXCEPT ![t].pc = "release"]
    /\ UNCHANGED <<now, disk, current_week, append_errors, watchVars, queueVars,
                   emitted, enqueued, runs, result, lock>>

\* the end of the with block: the lock is released and the call returns
Release(t) ==
    /\ callers[t].pc = "release"
    /\ lock' = "free"
    /\ callers' = [callers EXCEPT ![t].pc = "done"]
    /\ UNCHANGED <<now, storeVars, watchVars, queueVars, emitted, enqueued,
                   runs, result>>

NextLock ==
    \/ \E t \in Threads, parsed_log \in LockEvents : CallAddLog(t, parsed_log)
    \/ \E t \in Threads : Acquire(t)
    \/ \E t \in Threads : TestProcessed(t)
    \/ \E t \in Threads, io_ok \in IOOutcomes : WriteFile(t, io_ok)
    \/ \E t \in Threads : MarkProcessed(t)
    \/ \E t \in Threads : Release(t)
    \/ Tick

SpecLock == InitQueue /\ [][NextLock]_vars

\* the threads between the membership test and the end of the with block
InCritical == {t \in Threads : callers[t].pc \in {"test", "write", "mark", "release"}}

\* both calls have returned and carried Events of one fingerprint
BothReturnedSameFingerprint ==
    /\ \A t \in Threads : callers[t].pc = "done"
    /\ Fingerprint(callers["t1"].log) = Fingerprint(callers["t2"].log)

\* C36: two threads appending Events of identical fingerprint write exactly
\* one record in total, for every interleaving: the membership test, the
\* file write and the insertion of the fingerprint are one critical section
\* under the lock (at most one thread is inside it, and it holds the lock);
\* no two records ever share a fingerprint; once both calls have returned
\* there is one record, none only if every write that was tried raised.
C36_OneRecordUnderLock ==
    /\ Cardinality(InCritical) <= 1
    /\ \A t \in InCritical : lock = t
    /\ NoTwoRecordsShareFingerprint(disk)
    /\ BothReturnedSameFingerprint =>
          Cardinality(Places(disk)) =
              IF \A t \in Threads : callers[t].raised THEN 0 ELSE 1

\* both calls returned, the writes succeeded, one record was written and the
\* other call found the fingerprint in the set
C36_Witness ==
    /\ BothReturnedSameFingerprint
    /\ \A t \in Threads : ~callers[t].raised
    /\ Cardinality(Places(disk)) = 1
    /\ processed_logs = {Fingerprint(callers["t1"].log)}


(***************************************************************************)
(* The default week of reads (SpecQueue)                                   *)
(***************************************************************************)
\* the number of records _emit_log reads for its statistics: get_logs of the
\* three log types for json_accumulator.current_week
StatsReads(d) ==
    Len(GetLogs(d, "info", current_week)) + Len(GetLogs(d, "error", current_week))
    + Len(GetLogs(d, "request", current_week))

\* C37: at any time in a long-running process, an Event that add_log has just
\* written is returned by get_logs called without a week and is counted in
\* the statistics emitted next, also after the calendar week has changed.
C37_Step ==
    (cpc = "process" /\ disk' # disk) =>
        /\ \A ret \in GetLogsResults(disk', "all", NoLevel, current_week') :
              \E i \in DOMAIN ret : ret[i] = ParseLog(CurrentItem)
        /\ emitted'[Len(emitted')].event = "stats_update"
        /\ emitted'[Len(emitted')].data.total_logs = StatsReads(disk) + 1

C37_DefaultWeekIsWriteWeek == [][C37_Step]_vars


(***************************************************************************)
(* SpecRequests: the dispatcher fed with request lines of one python       *)
(* access file and of one node requests file that carry the same           *)
(* timestamp.  The writes succeed.                                         *)
(***************************************************************************)
\* a second request of the second T1: another path, method, status and id
LReqB == JsonLine([level |-> JStr("INFO"), message |-> JStr("POST /b"),
                   timestamp |-> JStr(T1), path |-> JStr("/b"),
                   method |-> JStr("POST"), status_code |-> [t |-> "num", v |-> 201],
                   request_id |-> JStr("r2")])

LNodeReqB == JsonLine([level |-> JStr("info"),
                       message |-> JDict([endpoint |-> JStr("/api/orders"),
                                          ip |-> JStr("::1"), level |-> JStr("INFO"),
                                          method |-> JStr("GET"),
                                          status_code |-> [t |-> "num", v |-> 404],
                                          response_time |-> JStr("12ms")]),
                       timestamp |-> JStr(T1)])

RequestInputs ==
    { RawLine(PyAccess, LReqA), RawLine(PyAccess, LReqB),
      RawLine(NodeRequest, LNodeReq), RawLine(NodeRequest, LNodeReqB) }

NextRequests ==
    \/ \E log_entry \in RequestInputs : Submit(log_entry)
    \/ Dispatcher

SpecRequests == InitQueue /\ [][NextRequests]_vars

\* C38: two request Events of one source file with the same timestamp that
\* differ in endpoint, method, status code or request id are both stored:
\* every request Event the consumer has processed is a record of the store.
C38_DistinctRequestsBothStored ==
    \A i \in 1..bidx :
        ParseLog(batch[i]) # None => Stored(disk, ParseLog(batch[i]))
====
